---- MODULE Spec2Model ----
(***************************************************************************)
(* mara_watch: a file-sync manager.  A notify watcher delivers filesystem  *)
(* notifications to one callback (Manager::run), which classifies each     *)
(* notification against sync_map, builds a FileEvent and offers it to      *)
(* every registered SyncProcess in registration order                      *)
(* (Manager::dispatch_event, SyncProcess::execute).                        *)
(*                                                                         *)
(* Strings are modelled as sequences of tokens (a token is a run of        *)
(* characters that the code never splits: a word, one blank, one colon, a  *)
(* run of six dashes).  A text is the sequence of its "\n"-separated       *)
(* segments, so a text ending in a newline ends in the empty segment.      *)
(* A path is the sequence of its components; an absolute path starts with  *)
(* the component "/".                                                      *)
(***************************************************************************)
EXTENDS Integers, Sequences, FiniteSets, TLC

\* ------------------------------------------------------------------ bounds
\* external filesystem operations (user edits) in one run
MaxExt == 2
\* capacity of the watcher's notification queue; a notification raised while
\* the queue is full is lost (queue overflow)
MaxQueue == 4
\* segments of the longest text a process writes
MaxLines == 7
\* failing writes and removes (I/O errors) in one run
MaxFail == 1

\* ------------------------------------------------------------------ options
None == <<>>
Some(x) == <<x>>
IsSome(o) == o # <<>>
Unwrap(o) == o[1]

\* ------------------------------------------------------------------ strings
SP == " "
COLON == ":"
DASHES == "------"

\* str::trim_start / trim_end / trim on one line
RECURSIVE TrimStartLine(_)
TrimStartLine(l) ==
    IF l # <<>> /\ Head(l) = SP THEN TrimStartLine(Tail(l)) ELSE l

RECURSIVE TrimEndLine(_)
TrimEndLine(l) ==
    IF l # <<>> /\ l[Len(l)] = SP THEN TrimEndLine(SubSeq(l, 1, Len(l) - 1)) ELSE l

TrimLine(l) == TrimEndLine(TrimStartLine(l))

\* str::trim_end_matches(':')
RECURSIVE TrimEndColons(_)
TrimEndColons(l) ==
    IF l # <<>> /\ l[Len(l)] = COLON THEN TrimEndColons(SubSeq(l, 1, Len(l) - 1)) ELSE l

\* str::ends_with(':')
EndsWithColon(l) == l # <<>> /\ l[Len(l)] = COLON

\* str::starts_with("------")
StartsWithDashes(l) == l # <<>> /\ l[1] = DASHES

\* the empty string
EmptyText == << <<>> >>

\* str::lines(): the segments, without the empty one a final newline leaves
Lines(t) == IF t[Len(t)] = <<>> THEN SubSeq(t, 1, Len(t) - 1) ELSE t

\* [&str]::join("\n")
JoinLines(ls) == IF ls = <<>> THEN EmptyText ELSE ls

\* String concatenation of two texts
Concat(s, t) == SubSeq(s, 1, Len(s) - 1) \o <<s[Len(s)] \o t[1]>> \o Tail(t)

\* str::trim on a text: blanks and newlines go from both ends
RECURSIVE TrimStartText(_)
TrimStartText(t) ==
    IF Len(t) > 1 /\ TrimStartLine(t[1]) = <<>>
    THEN TrimStartText(Tail(t))
    ELSE <<TrimStartLine(t[1])>> \o Tail(t)

RECURSIVE TrimEndText(_)
TrimEndText(t) ==
    IF Len(t) > 1 /\ TrimEndLine(t[Len(t)]) = <<>>
    THEN TrimEndText(SubSeq(t, 1, Len(t) - 1))
    ELSE SubSeq(t, 1, Len(t) - 1) \o <<TrimEndLine(t[Len(t)])>>

TrimText(t) == TrimEndText(TrimStartText(t))

\* ------------------------------------------------------------------ paths
\* the working directory of the program; main creates _mara/a, _mara/b and
\* _mara/c below it and watches <working directory>/_mara by its absolute path
Cwd == <<"/", "ws">>

IsAbsolute(p) == p # <<>> /\ p[1] = "/"

\* the file a path names: a relative path is resolved against Cwd
Resolve(p) == IF IsAbsolute(p) THEN p ELSE Cwd \o p

\* Path::to_string_lossy().to_string(): the components joined by "/"; the
\* component sequence stands for that string (no component holds a "/")
PathStr(p) == p

\* Path::file_name()?.to_str()?
FileName(p) == IF Len(p) >= 1 /\ p[Len(p)] # "/" THEN Some(p[Len(p)]) ELSE None

\* the extension a file name of the model ends with
Suffix(n) ==
    CASE n \in {"x.txt", "a.txt"} -> ".txt"
      [] n = "t.chat" -> ".chat"
      [] n = "k.command" -> ".command"
      [] n = "l.todo" -> ".todo"
      [] n = "d.md" -> ".md"
      [] n = "index.doku" -> ".doku"
      [] OTHER -> ""

\* name.ends_with(ext)
NameEndsWith(p, ext) == IsSome(FileName(p)) /\ Suffix(Unwrap(FileName(p))) = ext

\* the component c starts with the letter d
StartsWithLetter(c, d) == c = d \/ (d = "a" /\ c = "a.txt")

\* path_str.contains("_mara/" + d) for d a one-letter directory name: some
\* component ends with _mara and the next one starts with d
ContainsMara(p, d) ==
    \E i \in 1..(Len(p) - 1) : p[i] = "_mara" /\ StartsWithLetter(p[i + 1], d)

\* PathBuf::from("_mara/" + d).join(filename)
MaraJoin(d, filename) == <<"_mara", d, filename>>

\* ------------------------------------------------------------------ events
\* EventKind
Create == "Create"
Modify == "Modify"
Delete == "Delete"

\* EventOrigin
External == [internal |-> FALSE, process_name |-> ""]
Internal(n) == [internal |-> TRUE, process_name |-> n]

\* FileEvent::new: the origin starts as External
FileEvent_new(path, kind) == [path |-> path, event_kind |-> kind, origin |-> External]

\* FileEvent::with_origin
with_origin(ev, origin) == [ev EXCEPT !.origin = origin]

\* ------------------------------------------------------------------ processors
A2B == "A->B (txt files)"
A2C == "A<->C (bidirectional)"
CHAT == "Chat processor"
PERSONA == "Persona parser"
COMMAND == "Command processor"
TODO == "Todo processor"
DOKU == "Doku processor"

\* the right_origin of the processors that look at the origin
NotFrom(ev, name) == ~ev.origin.internal \/ ev.origin.process_name # name

\* create_sync_a_to_b: filter, target, transform
sync_a_to_b_filter(ev) == ContainsMara(PathStr(ev.path), "a") /\ NameEndsWith(ev.path, ".txt")

\* a target under root C
sync_a_to_b_target_c(ev) ==
    IF IsSome(FileName(ev.path)) THEN Some(MaraJoin("c", Unwrap(FileName(ev.path)))) ELSE None

sync_a_to_b_target(ev) ==
    IF IsSome(FileName(ev.path)) THEN Some(MaraJoin("b", Unwrap(FileName(ev.path)))) ELSE None

sync_a_to_b_transform(ev, content) == Some(content)

\* create_sync_a_to_c: filter, target, transform
sync_a_to_c_filter(ev) ==
    /\ ContainsMara(PathStr(ev.path), "a") \/ ContainsMara(PathStr(ev.path), "c")
    /\ NotFrom(ev, A2C)

sync_a_to_c_target(ev) ==
    IF ~IsSome(FileName(ev.path)) THEN None
    ELSE IF ContainsMara(PathStr(ev.path), "a") THEN Some(MaraJoin("c", Unwrap(FileName(ev.path))))
    ELSE IF ContainsMara(PathStr(ev.path), "c") THEN Some(MaraJoin("a", Unwrap(FileName(ev.path))))
    ELSE None

sync_a_to_c_transform(ev, content) == Some(content)

\* the filter of the in-place processors: the file's extension and the origin
in_place_filter(ev, ext, name) == NameEndsWith(ev.path, ext) /\ NotFrom(ev, name)

\* the target of the in-place processors: Some(event.path.clone())
in_place_target(ev) == Some(ev.path)

\* create_doku_processor: the target is index.doku beside the file
doku_target(ev) ==
    IF Len(ev.path) >= 2 THEN Some(SubSeq(ev.path, 1, Len(ev.path) - 1) \o <<"index.doku">>)
    ELSE None

\* ------------------------------------------------------------------ chat
\* the inner loops "while i < lines.len() && !lines[i].trim().starts_with("------")":
\* the first index from k on whose line is a separator, or Len(lines) + 1
RECURSIVE SkipToSeparator(_, _)
SkipToSeparator(lines, k) ==
    IF k <= Len(lines) /\ ~StartsWithDashes(TrimLine(lines[k]))
    THEN SkipToSeparator(lines, k + 1)
    ELSE k

\* "Skip separator line": the index after the block that ends at j
AfterSeparator(lines, j) == IF j <= Len(lines) THEN j + 1 ELSE j

\* Message::new
Message(persona, content) == [persona |-> persona, content |-> content]

\* Chat::parse, from line i on, with the messages found so far
RECURSIVE ChatParseFrom(_, _, _)
ChatParseFrom(lines, i, messages) ==
    IF i > Len(lines) THEN messages
    ELSE LET line == TrimLine(lines[i]) IN
      IF line = <<>> \/ StartsWithDashes(line)
      THEN ChatParseFrom(lines, i + 1, messages)
      ELSE LET j == SkipToSeparator(lines, i + 1)
               persona == IF EndsWithColon(line) THEN TrimEndColons(line) ELSE <<"User">>
               content_lines ==
                   IF EndsWithColon(line)
                   THEN SubSeq(lines, i + 1, j - 1)
                   ELSE <<line>> \o [k \in 1..(j - 1 - i) |-> TrimLine(lines[i + k])]
               msg_content == TrimText(JoinLines(content_lines))
           IN ChatParseFrom(lines, AfterSeparator(lines, j),
                            IF msg_content # EmptyText
                            THEN Append(messages, Message(persona, msg_content))
                            ELSE messages)

\* Chat::parse
Chat_parse(content) == ChatParseFrom(Lines(content), 1, <<>>)

\* a format without the newline after the separator
ChatFormatOpen(msg) ==
    Concat(Concat(<<msg.persona \o <<COLON>>, <<>> >>, msg.content), << <<>>, <<DASHES>> >>)

\* format!("{}:\n{}\n------\n", msg.persona, msg.content)
ChatFormat(msg) ==
    Concat(Concat(<<msg.persona \o <<COLON>>, <<>> >>, msg.content), << <<>>, <<DASHES>>, <<>> >>)

\* Chat::render
RECURSIVE Chat_render(_)
Chat_render(messages) ==
    IF messages = <<>> THEN EmptyText
    ELSE Concat(ChatFormat(Head(messages)), Chat_render(Tail(messages)))

\* the message the chat processor adds
MaraMessage == Message(<<"mara">>, << <<"das ist interessant">> >>)

\* create_chat_processor: filter, target, transform
chat_filter(ev) == in_place_filter(ev, ".chat", CHAT)

chat_target(ev) == in_place_target(ev)

chat_transform(ev, content) == Some(Chat_render(Append(Chat_parse(content), MaraMessage)))

\* ------------------------------------------------------------------ personas
\* parse_personas, from line i on, with the pairs found so far
RECURSIVE PersonasFrom(_, _, _)
PersonasFrom(lines, i, personas) ==
    IF i > Len(lines) THEN personas
    ELSE IF EndsWithColon(lines[i]) /\ TrimLine(lines[i]) # <<>>
      THEN LET j == SkipToSeparator(lines, i + 1)
               text == TrimText(JoinLines(SubSeq(lines, i + 1, j - 1)))
           IN PersonasFrom(lines, AfterSeparator(lines, j),
                           IF text # EmptyText
                           THEN Append(personas, <<TrimEndColons(lines[i]), text>>)
                           ELSE personas)
      ELSE PersonasFrom(lines, i + 1, personas)

parse_personas(content) == PersonasFrom(Lines(content), 1, <<>>)

\* format!("{}:\n{}", persona, text)
PersonaFormat(pt) == Concat(<<pt[1] \o <<COLON>>, <<>> >>, pt[2])

\* the blocks joined by "\n------\n"
RECURSIVE JoinPersonas(_)
JoinPersonas(personas) ==
    IF personas = <<>> THEN EmptyText
    ELSE IF Len(personas) = 1 THEN PersonaFormat(personas[1])
    ELSE Concat(Concat(PersonaFormat(personas[1]), << <<>>, <<DASHES>>, <<>> >>),
                JoinPersonas(Tail(personas)))

\* the joined blocks with no final newline
render_personas_open(personas) == JoinPersonas(personas)

\* render_personas: the joined blocks and a final newline
render_personas(personas) == Concat(JoinPersonas(personas), << <<>>, <<>> >>)

\* create_persona_parser: filter, target, transform
persona_filter(ev) == in_place_filter(ev, ".txt", PERSONA)

persona_target(ev) == in_place_target(ev)

persona_transform(ev, content) == Some(render_personas(parse_personas(content)))

\* ------------------------------------------------------------------ the other in-place processors
\* ------------------------------------------------------------------ commands
\* a run of five dashes; a run of six starts with five as well
FIVE == "-----"

\* str::starts_with("-----")
StartsWithFive(l) == l # <<>> /\ l[1] \in {FIVE, DASHES}

\* "while i < lines.len() && !lines[i].trim().starts_with("-----")": the first
\* index from k on whose line starts with five dashes, or Len(lines) + 1
RECURSIVE SkipToFive(_, _)
SkipToFive(lines, k) ==
    IF k <= Len(lines) /\ ~StartsWithFive(TrimLine(lines[k]))
    THEN SkipToFive(lines, k + 1)
    ELSE k

\* CommandEntry::with_result
CommandEntry_with_result(command, result) == [command |-> command, result |-> Some(result)]

\* the result of an entry: None without result lines or when they trim to ""
CommandResult(result_lines) ==
    IF result_lines # <<>> /\ TrimText(JoinLines(result_lines)) # EmptyText
    THEN Some(TrimText(JoinLines(result_lines)))
    ELSE None

\* CommandLog::parse, from line i on, with the entries found so far
RECURSIVE CommandParseFrom(_, _, _)
CommandParseFrom(lines, i, entries) ==
    IF i > Len(lines) THEN entries
    ELSE IF TrimLine(lines[i]) = <<>> \/ StartsWithFive(TrimLine(lines[i]))
      THEN CommandParseFrom(lines, i + 1, entries)
      ELSE LET j == SkipToSeparator(lines, i)
               command == TrimText(JoinLines(SubSeq(lines, i, j - 1)))
               k == AfterSeparator(lines, j)
               m == SkipToFive(lines, k)
               result == CommandResult(SubSeq(lines, k, m - 1))
           IN IF command = EmptyText
              THEN CommandParseFrom(lines, j, entries)
              ELSE CommandParseFrom(lines, IF m <= Len(lines) THEN m + 1 ELSE m,
                       Append(entries,
                              CommandEntry_with_result(command,
                                  IF IsSome(result) THEN Unwrap(result) ELSE EmptyText)))

\* CommandLog::parse
CommandLog_parse(content) == CommandParseFrom(Lines(content), 1, <<>>)

\* format!("{}\n------\n{}\n-----\n", entry.command, result)
CommandFormat(entry) ==
    Concat(Concat(Concat(entry.command, << <<>>, <<DASHES>>, <<>> >>),
                  IF IsSome(entry.result) THEN Unwrap(entry.result) ELSE EmptyText),
           << <<>>, <<FIVE>>, <<>> >>)

\* CommandLog::render
RECURSIVE CommandLog_render(_)
CommandLog_render(entries) ==
    IF entries = <<>> THEN EmptyText
    ELSE Concat(CommandFormat(Head(entries)), CommandLog_render(Tail(entries)))

\* execute_command: what sh -c prints for the command (stdout, then stderr):
\* echo prints "\n", ls prints "f\n", true prints nothing, and sh reports
\* anything else as not found
execute_command(command) ==
    CASE command = << <<"echo">> >> -> << <<>>, <<>> >>
      [] command = << <<"ls">> >> -> << <<"f">>, <<>> >>
      [] command = << <<"true">> >> -> EmptyText
      [] OTHER -> << <<"sh", COLON, SP, "not", SP, "found">>, <<>> >>

\* "entry.result.is_none() || entry.result is Some of the empty string"
WithoutResult(entry) == ~IsSome(entry.result) \/ Unwrap(entry.result) = EmptyText

\* "for entry in &mut log.entries": the entries after the loop, and the
\* commands the loop executed, in order
CommandRun(entries) ==
    [i \in 1..Len(entries) |->
        IF WithoutResult(entries[i])
        THEN [entries[i] EXCEPT !.result = Some(execute_command(entries[i].command))]
        ELSE entries[i]]

CommandExecuted(entries) ==
    LET todo == SelectSeq(entries, WithoutResult)
    IN [i \in 1..Len(todo) |-> todo[i].command]

command_filter(ev) == in_place_filter(ev, ".command", COMMAND)

command_transform(ev, content) ==
    Some(CommandLog_render(CommandRun(CommandLog_parse(content))))

command_target(ev) == in_place_target(ev)

\* ------------------------------------------------------------------ todos
\* the headers, the separator of 17 dashes and the brackets of a checkbox
NEU == "Neues Todo:"
TODOS == "Todos:"
RULE == "-----------------"
LB == "["
RB == "]"

\* str::starts_with(t) for a token t
StartsWithToken(l, t) == l # <<>> /\ l[1] = t

\* trimmed.find("]"): the index of the first "]", 0 when there is none
RECURSIVE FindFrom(_, _, _)
FindFrom(l, t, k) ==
    IF k > Len(l) THEN 0 ELSE IF l[k] = t THEN k ELSE FindFrom(l, t, k + 1)

\* TodoEntry::new, TodoEntry::with_status
TodoEntry_with_status(text, completed) == [text |-> text, completed |-> completed]
TodoEntry_new(text) == TodoEntry_with_status(text, FALSE)

\* "Parse todo items": the entry of a line that starts with "[" and has a "]"
TodoItem(trimmed) ==
    LET close_bracket == FindFrom(trimmed, RB, 1)
        checkbox == TrimLine(SubSeq(trimmed, 2, close_bracket - 1))
        text == TrimLine(SubSeq(trimmed, close_bracket + 1, Len(trimmed)))
    IN TodoEntry_with_status(text, checkbox \in {<<"x">>, <<"X">>})

\* the locals of TodoLog::parse before its loop
TodoStart ==
    [active_todos |-> <<>>, completed_todos |-> <<>>, new_todos |-> <<>>,
     in_new_todo_section |-> FALSE, in_completed_section |-> FALSE]

\* one round of "for line in lines"
TodoLine(st, line) ==
    LET trimmed == TrimLine(line) IN
    IF StartsWithToken(trimmed, NEU)
    THEN [st EXCEPT !.in_new_todo_section = TRUE, !.in_completed_section = FALSE]
    ELSE IF StartsWithToken(trimmed, TODOS) THEN [st EXCEPT !.in_new_todo_section = FALSE]
    ELSE IF trimmed = <<>> THEN st
    ELSE IF StartsWithToken(trimmed, RULE) THEN [st EXCEPT !.in_completed_section = TRUE]
    ELSE IF st.in_new_todo_section THEN [st EXCEPT !.new_todos = Append(@, trimmed)]
    ELSE IF StartsWithToken(trimmed, LB) /\ FindFrom(trimmed, RB, 1) >= 1
      THEN IF st.in_completed_section
           THEN [st EXCEPT !.completed_todos = Append(@, TodoItem(trimmed))]
           ELSE [st EXCEPT !.active_todos = Append(@, TodoItem(trimmed))]
      ELSE st

RECURSIVE TodoScan(_, _, _)
TodoScan(lines, i, st) ==
    IF i > Len(lines) THEN st ELSE TodoScan(lines, i + 1, TodoLine(st, lines[i]))

\* the entries of the new todos
NewEntries(new_todos) == [i \in 1..Len(new_todos) |-> TodoEntry_new(new_todos[i])]

\* a parse that adds the new todos after the listed ones
TodoLog_parse_new_last(content) ==
    LET st == TodoScan(Lines(content), 1, TodoStart)
    IN st.active_todos \o NewEntries(st.new_todos) \o st.completed_todos

\* TodoLog::parse: the new todos, the active ones, the completed ones
TodoLog_parse(content) ==
    LET st == TodoScan(Lines(content), 1, TodoStart)
    IN NewEntries(st.new_todos) \o st.active_todos \o st.completed_todos

\* format!("[] {}\n", entry.text) and format!("[x] {}\n", entry.text), as lines
TodoOpenLineBlank(entry) == <<LB, SP, RB, SP>> \o entry.text
TodoOpenLine(entry) == <<LB, RB, SP>> \o entry.text
TodoDoneLine(entry) == <<LB, "x", RB, SP>> \o entry.text

IsCompleted(entry) == entry.completed
IsActive(entry) == ~entry.completed

\* TodoLog::render
TodoLog_render(entries) ==
    LET active == SelectSeq(entries, IsActive)
        completed == SelectSeq(entries, IsCompleted)
    IN << <<NEU>>, <<>>, <<TODOS>> >>
         \o [i \in 1..Len(active) |-> TodoOpenLine(active[i])]
         \o (IF completed # <<>> THEN << <<RULE>> >> ELSE <<>>)
         \o [i \in 1..Len(completed) |-> TodoDoneLine(completed[i])]
         \o << <<>> >>

todo_filter(ev) == in_place_filter(ev, ".todo", TODO)

todo_target(ev) == in_place_target(ev)

todo_transform(ev, content) == Some(TodoLog_render(TodoLog_parse(content)))

doku_filter(ev) == in_place_filter(ev, ".md", DOKU)

\* ------------------------------------------------------------------ SyncProcess
\* (self.filter)(event)
Filter(name, ev) ==
    CASE name = A2B -> sync_a_to_b_filter(ev)
      [] name = A2C -> sync_a_to_c_filter(ev)
      [] name = CHAT -> chat_filter(ev)
      [] name = PERSONA -> persona_filter(ev)
      [] name = COMMAND -> command_filter(ev)
      [] name = TODO -> todo_filter(ev)
      [] name = DOKU -> doku_filter(ev)

\* (self.target)(event)
Target(name, ev) ==
    CASE name = A2B -> sync_a_to_b_target(ev)
      [] name = A2C -> sync_a_to_c_target(ev)
      [] name = CHAT -> chat_target(ev)
      [] name = PERSONA -> persona_target(ev)
      [] name = COMMAND -> command_target(ev)
      [] name = TODO -> todo_target(ev)
      [] name = DOKU -> doku_target(ev)

\* (self.transform)(event, &content): Some(bytes) for Ok, None for Err
Transform(name, ev, content) ==
    CASE name = A2B -> sync_a_to_b_transform(ev, content)
      [] name = A2C -> sync_a_to_c_transform(ev, content)
      [] name = CHAT -> chat_transform(ev, content)
      [] name = PERSONA -> persona_transform(ev, content)

\* ------------------------------------------------------------------ state
VARIABLES
    fs,            \* the watched tree: absolute path -> None (no file) or Some(content)
    queue,         \* notifications the watcher has raised and not yet delivered
    sync_map,      \* Manager.sync_map: target path string -> process name
    processes,     \* Manager.processes, in registration order
    pc,            \* where the watcher callback is: idle, inside execute, or returning
    file_event,    \* the FileEvent being dispatched
    idx,           \* the index in processes of the process being executed
    target_path,   \* execute's target_path
    transformed,   \* execute's transformed
    ext_count,     \* external operations so far
    fail_count,    \* failed writes and removes so far
    note,          \* history: what caused the notification being dispatched
    writers,       \* history: per file, the processes that wrote it since a
                   \* notification for it was last classified
    outcomes,      \* history: how each process so far ended on file_event
    stdout,        \* the lines the callback has printed since it took its notification
    written,       \* history: the files some process has written
    lock,          \* the thread that holds the Mutex of sync_map, 0 when it is free
    threads,       \* two callbacks run side by side: where each one is
    watch_paths,   \* Manager.watch_paths, in the order of the watch_path calls
    run_pc,        \* where the thread that called Manager::run is
    call,          \* a transform called on its own: its argument, what it returned
                   \* and the commands it executed
    untracked      \* history: the targets a Delete took out of the registry and no
                   \* process has written since

vars == <<fs, queue, sync_map, processes, watch_paths, run_pc, call, untracked, pc, file_event, idx, target_path, transformed,
          ext_count, fail_count, note, writers, outcomes, stdout, written, lock, threads>>

\* the watched root, <working directory>/_mara, and a file of a directory below it
WatchRoot == Cwd \o <<"_mara">>
InDir(d, n) == WatchRoot \o <<d, n>>

\* the files a user touches
Files == {InDir(d, "x.txt") : d \in {"a", "b", "c"}} \cup {InDir("a", "t.chat")}

\* the files of the watched tree: those and the ones the processors mirror them to
AllFiles == {InDir(d, n) : d \in {"a", "b", "c"}, n \in {"x.txt", "t.chat"}}

\* what a user writes: "hi" and "Alice:\nhi\n"
ExtContents == { << <<"hi">> >>, << <<"Alice", COLON>>, <<"hi">>, <<>> >> }

\* the processors registered: main's two, each sync alone, an in-place
\* processor alone, and the mirror with an in-place processor, in both orders
Configs == { <<A2B, A2C>>, <<A2B>>, <<A2C>>, <<CHAT>>, <<A2B, PERSONA>>, <<PERSONA, A2B>> }

Procs == {A2B, A2C, CHAT, PERSONA}

\* Path::is_file / Path::exists
is_file(p) == IsSome(fs[Resolve(p)])

NoEvent == FileEvent_new(<<>>, Create)

\* no transform has been called on its own
NoCall == [pc |-> "none"]
NoNote == [cause |-> "", paired |-> FALSE, had_pending |-> FALSE]

\* the threads of two callbacks that share sync_map, and a callback that has
\* not started
Threads == {1, 2}
NoCallback == [pc |-> "start", key |-> "", seen |-> <<>>, got |-> None]

\* Manager::new, the register_process calls, and run up to the watcher's start
Init ==
    /\ fs = [p \in AllFiles |-> None]
    /\ queue = <<>>
    /\ sync_map = <<>>
    /\ processes \in Configs
    /\ pc = "idle"
    /\ file_event = NoEvent
    /\ idx = 0
    /\ target_path = <<>>
    /\ transformed = EmptyText
    /\ ext_count = 0
    /\ fail_count = 0
    /\ note = NoNote
    /\ writers = [p \in AllFiles |-> {}]
    /\ outcomes = <<>>
    /\ stdout = <<>>
    /\ written = {}
    /\ lock = 0
    /\ threads = [t \in Threads |-> NoCallback]
    /\ watch_paths = <<PathStr(WatchRoot)>>
    /\ run_pc = "sleeping"
    /\ call = NoCall
    /\ untracked = {}

\* a lock() that does not wait for the Mutex
MutexIgnored == TRUE

\* Mutex::lock returns when no thread holds the Mutex
MutexFree == lock = 0

\* ------------------------------------------------------------------ the watcher
\* the undelivered notifications of writes of n's file by other processes,
\* when no notification for that file was classified since those writes
Pairs(q, n) ==
    {i \in 1..Len(q) : /\ q[i].path = n.path
                       /\ q[i].kind \in {Create, Modify} /\ n.kind \in {Create, Modify}
                       /\ n.cause \in Procs
                       /\ q[i].cause \in writers[n.path] \ {n.cause}}

\* the capacity of the watcher's queue: with the four exported processors one
\* external write puts more notifications in flight, and the queue holds them
QueueCap == IF Len(processes) > 2 THEN 2 * MaxQueue ELSE MaxQueue

\* the watcher takes a notification; one raised on a full queue is lost
Notify(q, path, kind, cause) ==
    LET n == [path |-> path, kind |-> kind, cause |-> cause, paired |-> FALSE] IN
    IF Len(q) >= QueueCap THEN q
    ELSE Append([i \in 1..Len(q) |-> IF i \in Pairs(q, n) THEN [q[i] EXCEPT !.paired = TRUE]
                                                         ELSE q[i]],
                [n EXCEPT !.paired = Pairs(q, n) # {}])

\* the kind of notification a write of path raises
WriteKind(path) == IF is_file(path) THEN Modify ELSE Create

Dispatcher == <<sync_map, processes, watch_paths, run_pc, call, untracked, pc, file_event, idx, target_path, transformed,
                fail_count, note, writers, outcomes, stdout, written, lock, threads>>

\* a user writes a file of the watched tree
ExtWrite ==
    \E p \in Files, c \in ExtContents :
        /\ ext_count < MaxExt
        /\ ext_count' = ext_count + 1
        /\ fs' = [fs EXCEPT ![p] = Some(c)]
        /\ queue' = Notify(queue, p, WriteKind(p), "ext")
        /\ UNCHANGED Dispatcher

\* a user removes a file of the watched tree
ExtDelete ==
    \E p \in Files :
        /\ ext_count < MaxExt
        /\ is_file(p)
        /\ ext_count' = ext_count + 1
        /\ fs' = [fs EXCEPT ![p] = None]
        /\ queue' = Notify(queue, p, "Remove", "ext")
        /\ UNCHANGED Dispatcher

\* a user reads a file or changes its metadata: a notification of another kind
ExtOther ==
    \E p \in Files :
        /\ ext_count < MaxExt
        /\ is_file(p)
        /\ ext_count' = ext_count + 1
        /\ queue' = Notify(queue, p, "Other", "ext")
        /\ UNCHANGED <<fs, Dispatcher>>

\* ------------------------------------------------------------------ Manager::run
\* a lookup by file name instead of by path
ClassifyByName(path) ==
    IF \E k \in DOMAIN sync_map : FileName(k) = FileName(path)
    THEN Internal(sync_map[CHOOSE k \in DOMAIN sync_map : FileName(k) = FileName(path)])
    ELSE External

\* "Check if this file was written by a process": sync_map.get(&path_str)
Classify(path) ==
    IF PathStr(path) \in DOMAIN sync_map
    THEN Internal(sync_map[PathStr(path)])
    ELSE External

\* println!("EVENT {} {} | {}", kind, origin, path)
EventLine(ev) == [line |-> "EVENT", event_kind |-> ev.event_kind, origin |-> ev.origin,
                  path |-> ev.path]

\* a dispatch_event that prints nothing before its loop
StartDispatchSilent(ev, n) ==
    /\ file_event' = ev
    /\ stdout' = <<>>
    /\ note' = [cause |-> n.cause, paired |-> n.paired, had_pending |-> writers[n.path] # {}]
    /\ writers' = IF ev.event_kind = Delete THEN writers ELSE [writers EXCEPT ![n.path] = {}]
    /\ outcomes' = <<>>
    /\ idx' = 1
    /\ pc' = "filter"

\* a dispatch_event that starts its loop at the last process
StartDispatchLast(ev, n) ==
    /\ file_event' = ev
    /\ stdout' = <<EventLine(ev)>>
    /\ note' = [cause |-> n.cause, paired |-> n.paired, had_pending |-> writers[n.path] # {}]
    /\ writers' = IF ev.event_kind = Delete THEN writers ELSE [writers EXCEPT ![n.path] = {}]
    /\ outcomes' = <<>>
    /\ idx' = Len(processes)
    /\ pc' = "filter"

\* dispatch_event prints the event and starts its loop over the processes
StartDispatch(ev, n) ==
    /\ file_event' = ev
    /\ stdout' = <<EventLine(ev)>>
    /\ note' = [cause |-> n.cause, paired |-> n.paired, had_pending |-> writers[n.path] # {}]
    /\ writers' = IF ev.event_kind = Delete THEN writers ELSE [writers EXCEPT ![n.path] = {}]
    /\ outcomes' = <<>>
    /\ idx' = 1
    /\ pc' = "filter"

\* a callback that keeps the guard of the registry while it dispatches
ReceiveWriteGuarded ==
    /\ pc = "idle" /\ queue # <<>>
    /\ Head(queue).kind \in {Create, Modify}
    /\ is_file(Head(queue).path)
    /\ queue' = Tail(queue)
    /\ MutexFree
    /\ StartDispatch(with_origin(FileEvent_new(Head(queue).path, Head(queue).kind),
                                 Classify(Head(queue).path)),
                     Head(queue))
    /\ lock' = 1
    /\ UNCHANGED <<fs, sync_map, processes, watch_paths, run_pc, call, untracked, target_path, transformed, ext_count, fail_count,
                   written, threads>>

\* the callback on a Create or Modify notification whose path is a file:
\* sync_map_clone.lock().unwrap().get(&path_str) under the Mutex, whose guard
\* goes at the end of the if let, before dispatch_event
ReceiveWrite ==
    /\ pc = "idle" /\ queue # <<>>
    /\ Head(queue).kind \in {Create, Modify}
    /\ is_file(Head(queue).path)
    /\ queue' = Tail(queue)
    /\ MutexFree
    /\ StartDispatch(with_origin(FileEvent_new(Head(queue).path, Head(queue).kind),
                                 Classify(Head(queue).path)),
                     Head(queue))
    /\ lock' = 0
    /\ UNCHANGED <<fs, sync_map, processes, watch_paths, run_pc, call, untracked, target_path, transformed, ext_count, fail_count,
                   written, threads>>

\* the callback on a Create or Modify notification whose path is no file (any more)
ReceiveGone ==
    /\ pc = "idle" /\ queue # <<>>
    /\ Head(queue).kind \in {Create, Modify}
    /\ ~is_file(Head(queue).path)
    /\ queue' = Tail(queue)
    /\ pc' = "skipped"
    /\ UNCHANGED <<fs, sync_map, processes, watch_paths, run_pc, call, untracked, file_event, idx, target_path, transformed,
                   ext_count, fail_count, note, writers, outcomes, stdout, written, lock,
                   threads>>

\* the callback on a Remove notification: the event keeps the origin External
ReceiveRemove ==
    /\ pc = "idle" /\ queue # <<>>
    /\ Head(queue).kind = "Remove"
    /\ queue' = Tail(queue)
    /\ StartDispatch(FileEvent_new(Head(queue).path, Delete), Head(queue))
    /\ UNCHANGED <<fs, sync_map, processes, watch_paths, run_pc, call, untracked, target_path, transformed, ext_count, fail_count,
                   written, lock, threads>>

\* a callback that takes a notification of any other kind for a Modify
ReceiveOtherAsModify ==
    /\ pc = "idle" /\ queue # <<>>
    /\ Head(queue).kind = "Other"
    /\ is_file(Head(queue).path)
    /\ queue' = Tail(queue)
    /\ StartDispatch(with_origin(FileEvent_new(Head(queue).path, Modify),
                                 Classify(Head(queue).path)),
                     Head(queue))
    /\ UNCHANGED <<fs, sync_map, processes, watch_paths, run_pc, call, untracked, target_path, transformed, ext_count, fail_count,
                   written, lock, threads>>

\* the callback on a notification of any other kind: "_ => {}"
ReceiveOther ==
    /\ pc = "idle" /\ queue # <<>>
    /\ Head(queue).kind = "Other"
    /\ queue' = Tail(queue)
    /\ pc' = "dropped"
    /\ UNCHANGED <<fs, sync_map, processes, watch_paths, run_pc, call, untracked, file_event, idx, target_path, transformed,
                   ext_count, fail_count, note, writers, outcomes, stdout, written, lock,
                   threads>>

\* ------------------------------------------------------------------ Manager::dispatch_event
\* a dispatch_event that classifies the event again for each process
AdvanceReclassify(outcome) ==
    /\ outcomes' = Append(outcomes, outcome)
    /\ file_event' = IF file_event.event_kind # Delete /\ PathStr(file_event.path) \in DOMAIN sync_map'
                      THEN with_origin(file_event, Internal(sync_map'[PathStr(file_event.path)]))
                      ELSE file_event
    /\ target_path' = <<>>
    /\ transformed' = EmptyText
    /\ IF idx < Len(processes)
       THEN pc' = "filter" /\ idx' = idx + 1
       ELSE pc' = "done" /\ idx' = idx

\* execute returns (its locals go); the for loop goes on to the next process,
\* or is over
Advance(outcome) ==
    /\ outcomes' = Append(outcomes, outcome)
    /\ file_event' = file_event
    /\ target_path' = <<>>
    /\ transformed' = EmptyText
    /\ IF idx < Len(processes)
       THEN pc' = "filter" /\ idx' = idx + 1
       ELSE pc' = "done" /\ idx' = idx

\* println!("Error processing event: {}", e)
ErrorLine == [line |-> "Error"]

\* a dispatch_event on which an error ends the watcher thread
PanicOnError ==
    /\ outcomes' = Append(outcomes, "err")
    /\ stdout' = Append(stdout, ErrorLine)
    /\ file_event' = file_event
    /\ target_path' = <<>>
    /\ transformed' = EmptyText
    /\ pc' = "stopped" /\ idx' = idx

\* a dispatch_event that gives up at the first error
AbortOnError ==
    /\ outcomes' = Append(outcomes, "err")
    /\ stdout' = Append(stdout, ErrorLine)
    /\ file_event' = file_event
    /\ target_path' = <<>>
    /\ transformed' = EmptyText
    /\ pc' = "done" /\ idx' = idx

\* a dispatch_event that calls execute again after an error
RetryOnError ==
    /\ outcomes' = Append(outcomes, "err")
    /\ stdout' = Append(stdout, ErrorLine)
    /\ file_event' = file_event
    /\ target_path' = <<>>
    /\ transformed' = EmptyText
    /\ pc' = "filter" /\ idx' = idx

\* "if let Err(e) = process.execute(..) { println!(..) }": the loop goes on
OnError == Advance("err") /\ stdout' = Append(stdout, ErrorLine)

\* ------------------------------------------------------------------ SyncProcess::execute
name == processes[idx]

\* the filter says yes and there is a target
Accepts(n, ev) == Filter(n, ev) /\ IsSome(Target(n, ev))

\* the filter says no, or there is no target: return Ok(())
ExecSkip ==
    /\ pc = "filter"
    /\ ~Accepts(name, file_event)
    /\ UNCHANGED <<fs, queue, sync_map, processes, watch_paths, run_pc, call, untracked, ext_count, fail_count, note, writers,
                   stdout, written, lock, threads>>
    /\ Advance("skip")

\* the filter says yes and there is a target: on to the match on event_kind
ExecAccept ==
    /\ pc = "filter"
    /\ Accepts(name, file_event)
    /\ target_path' = Unwrap(Target(name, file_event))
    /\ pc' = IF file_event.event_kind = Delete THEN "remove" ELSE "read"
    /\ UNCHANGED <<fs, queue, sync_map, processes, watch_paths, run_pc, call, untracked, file_event, idx, transformed,
                   ext_count, fail_count, note, writers, outcomes, stdout, written, lock,
                   threads>>

\* fs::read(&event.path)? and (self.transform)(event, &content)?
ReadAndTransform(n, ev) ==
    IF is_file(ev.path) THEN Transform(n, ev, Unwrap(fs[Resolve(ev.path)])) ELSE None

ExecRead ==
    /\ pc = "read"
    /\ IsSome(ReadAndTransform(name, file_event))
    /\ transformed' = Unwrap(ReadAndTransform(name, file_event))
    /\ pc' = "write"
    /\ UNCHANGED <<fs, queue, sync_map, processes, watch_paths, run_pc, call, untracked, file_event, idx, target_path,
                   ext_count, fail_count, note, writers, outcomes, stdout, written, lock,
                   threads>>

\* the read or the transform fails: execute returns the error
ExecReadErr ==
    /\ pc = "read"
    /\ ~IsSome(ReadAndTransform(name, file_event))
    /\ UNCHANGED <<fs, queue, sync_map, processes, watch_paths, run_pc, call, untracked, ext_count, fail_count, note, writers,
                   written, lock, threads>>
    /\ OnError

\* a write that appends to the target instead of replacing its content
ExecWriteAppend ==
    /\ pc = "write"
    /\ Len(transformed) <= MaxLines
    /\ fs' = [fs EXCEPT ![Resolve(target_path)] =
                  IF IsSome(@) THEN Some(Concat(Unwrap(@), transformed)) ELSE Some(transformed)]
    /\ queue' = Notify(queue, Resolve(target_path), WriteKind(target_path), name)
    /\ writers' = [writers EXCEPT ![Resolve(target_path)] = @ \cup {name}]
    /\ written' = written \cup {Resolve(target_path)}
    /\ pc' = "insert"
    /\ untracked' = untracked \ {Resolve(target_path)}
    /\ UNCHANGED <<sync_map, processes, watch_paths, run_pc, call, file_event, idx, target_path, transformed,
                   ext_count, fail_count, note, outcomes, stdout, lock, threads>>

\* fs::write(&target_path, transformed)? succeeds; the watcher sees the write
ExecWrite ==
    /\ pc = "write"
    /\ Len(transformed) <= MaxLines
    /\ fs' = [fs EXCEPT ![Resolve(target_path)] = Some(transformed)]
    /\ queue' = Notify(queue, Resolve(target_path), WriteKind(target_path), name)
    /\ writers' = [writers EXCEPT ![Resolve(target_path)] = @ \cup {name}]
    /\ written' = written \cup {Resolve(target_path)}
    /\ pc' = "insert"
    /\ untracked' = untracked \ {Resolve(target_path)}
    /\ UNCHANGED <<sync_map, processes, watch_paths, run_pc, call, file_event, idx, target_path, transformed,
                   ext_count, fail_count, note, outcomes, stdout, lock, threads>>

\* an execute that tracks the target before it writes: the write fails
ExecWriteErrTracked ==
    /\ pc = "write"
    /\ fail_count < MaxFail
    /\ fail_count' = fail_count + 1
    /\ sync_map' = [k \in DOMAIN sync_map \cup {PathStr(target_path)} |->
                      IF k = PathStr(target_path) THEN name ELSE sync_map[k]]
    /\ UNCHANGED <<fs, queue, processes, watch_paths, run_pc, call, untracked, ext_count, note, writers, written, lock,
                   threads>>
    /\ OnError

\* fs::write fails (the target cannot be opened): execute returns the error
ExecWriteErr ==
    /\ pc = "write"
    /\ fail_count < MaxFail
    /\ fail_count' = fail_count + 1
    /\ UNCHANGED <<fs, queue, sync_map, processes, watch_paths, run_pc, call, untracked, ext_count, note, writers, written, lock,
                   threads>>
    /\ OnError

\* println!("[{}] | {} -> {}", name, event.path, target_path) and, on Delete,
\* println!("[{}] | {} (target: {})", name, event.path, target_path)
SyncLine(n, ev, target) == [line |-> "sync", process |-> n, path |-> ev.path, target |-> target]
DeleteLine(n, ev, target) ==
    [line |-> "delete", process |-> n, path |-> ev.path, target |-> target]

\* "Track that this target was written by this process": sync_map.insert
Track(map, key, n) == [k \in DOMAIN map \cup {key} |-> IF k = key THEN n ELSE map[k]]

\* sync_map.lock().unwrap() waits for the Mutex; the guard goes at the end of
\* the statement
ExecInsert ==
    /\ pc = "insert"
    /\ MutexFree
    /\ sync_map' = Track(sync_map, PathStr(target_path), name)
    /\ lock' = 0
    /\ stdout' = Append(stdout, SyncLine(name, file_event, target_path))
    /\ UNCHANGED <<fs, queue, processes, watch_paths, run_pc, call, untracked, ext_count, fail_count, note, writers, written,
                   threads>>
    /\ Advance("ok")

\* Delete: the target exists and fs::remove_file succeeds; the watcher sees it
ExecRemove ==
    /\ pc = "remove"
    /\ is_file(target_path)
    /\ fs' = [fs EXCEPT ![Resolve(target_path)] = None]
    /\ queue' = Notify(queue, Resolve(target_path), "Remove", name)
    /\ pc' = "untrack"
    /\ UNCHANGED <<sync_map, processes, watch_paths, run_pc, call, untracked, file_event, idx, target_path, transformed,
                   ext_count, fail_count, note, writers, outcomes, stdout, written, lock,
                   threads>>

\* a Delete branch that calls fs::remove_file without looking: the target does
\* not exist and the call fails
ExecRemoveAbsentErr ==
    /\ pc = "remove"
    /\ ~is_file(target_path)
    /\ UNCHANGED <<fs, queue, sync_map, processes, watch_paths, run_pc, call, untracked, ext_count, fail_count, note, writers,
                   written, lock, threads>>
    /\ OnError

\* Delete: the target does not exist, nothing is removed
ExecRemoveAbsent ==
    /\ pc = "remove"
    /\ ~is_file(target_path)
    /\ pc' = "untrack"
    /\ UNCHANGED <<fs, queue, sync_map, processes, watch_paths, run_pc, call, untracked, file_event, idx, target_path,
                   transformed, ext_count, fail_count, note, writers, outcomes, stdout,
                   written, lock, threads>>

\* Delete: the target exists and fs::remove_file fails
ExecRemoveErr ==
    /\ pc = "remove"
    /\ is_file(target_path)
    /\ fail_count < MaxFail
    /\ fail_count' = fail_count + 1
    /\ UNCHANGED <<fs, queue, sync_map, processes, watch_paths, run_pc, call, untracked, ext_count, note, writers, written, lock,
                   threads>>
    /\ OnError

\* "Remove from tracking": sync_map.remove
Untrack(map, key) == [k \in DOMAIN map \ {key} |-> map[k]]

ExecUntrack ==
    /\ pc = "untrack"
    /\ MutexFree
    /\ sync_map' = Untrack(sync_map, PathStr(target_path))
    /\ lock' = 0
    /\ stdout' = Append(stdout, DeleteLine(name, file_event, target_path))
    /\ untracked' = untracked \cup {Resolve(target_path)}
    /\ UNCHANGED <<fs, queue, processes, watch_paths, run_pc, call, ext_count, fail_count, note, writers, written,
                   threads>>
    /\ Advance("ok")

\* dispatch_event and the callback return; the watcher waits for the next
\* notification
Return ==
    /\ pc \in {"done", "dropped", "skipped"}
    /\ pc' = "idle"
    /\ file_event' = NoEvent
    /\ idx' = 0
    /\ note' = NoNote
    /\ outcomes' = <<>>
    /\ stdout' = <<>>
    /\ UNCHANGED <<fs, queue, sync_map, processes, watch_paths, run_pc, call, untracked, target_path, transformed, ext_count,
                   fail_count, writers, written, lock, threads>>

\* ------------------------------------------------------------------ specification
Next ==
    \/ ExtWrite
    \/ ExtDelete
    \/ ExtOther
    \/ ReceiveWrite
    \/ ReceiveGone
    \/ ReceiveRemove
    \/ ReceiveOther
    \/ ExecSkip
    \/ ExecAccept
    \/ ExecRead
    \/ ExecReadErr
    \/ ExecWrite
    \/ ExecWriteErr
    \/ ExecInsert
    \/ ExecRemove
    \/ ExecRemoveAbsent
    \/ ExecRemoveErr
    \/ ExecUntrack
    \/ Return

Spec == Init /\ [][Next]_vars

\* what the watcher's thread does: the callback, from taking a notification to
\* its return; fs::read and the transform are apart, as ReadReturns
Callback ==
    \/ ReceiveWrite \/ ReceiveGone \/ ReceiveRemove \/ ReceiveOther
    \/ ExecSkip \/ ExecAccept \/ ExecWrite \/ ExecWriteErr
    \/ ExecInsert \/ ExecRemove \/ ExecRemoveAbsent \/ ExecRemoveErr \/ ExecUntrack
    \/ Return

\* fs::read and the transform return, with a content or with an error: the
\* steps ExecRead and ExecReadErr, one of which is enabled whenever pc = "read"
ReadReturns == pc = "read" /\ pc' \in {"write", "filter", "done", "stopped"}

\* the watcher's thread keeps running: a callback that can take a step takes it
FairSpec == Spec /\ WF_vars(Callback) /\ WF_pc(ReadReturns)

\* ------------------------------------------------------------------ execute, called directly
\* every processor file of the repository, registered or not
AllProcs == {A2B, A2C, CHAT, PERSONA, COMMAND, TODO, DOKU}

\* the paths of the events offered: the watched files, one file per in-place
\* processor, and a path relative to the working directory
OfferPaths ==
    AllFiles \cup {InDir("a", n) : n \in {"k.command", "l.todo", "d.md", "index.doku"}}
             \cup {MaraJoin("a", "x.txt")}

Origins == {External} \cup {Internal(p) : p \in AllProcs}

\* process.execute(&event, &sync_map) on any FileEvent the public constructors
\* build (FileEvent::new, with_origin), for one process
InitOffer ==
    /\ fs = [p \in AllFiles |-> None]
    /\ queue = <<>>
    /\ sync_map = <<>>
    /\ processes \in {<<p>> : p \in AllProcs}
    /\ pc = "filter"
    /\ file_event \in {with_origin(FileEvent_new(p, k), o) :
                          p \in OfferPaths, k \in {Create, Modify, Delete}, o \in Origins}
    /\ idx = 1
    /\ target_path = <<>>
    /\ transformed = EmptyText
    /\ ext_count = 0
    /\ fail_count = 0
    /\ note = NoNote
    /\ writers = [p \in AllFiles |-> {}]
    /\ outcomes = <<>>
    /\ stdout = <<>>
    /\ written = {}
    /\ lock = 0
    /\ threads = [t \in Threads |-> NoCallback]
    /\ watch_paths = <<PathStr(WatchRoot)>>
    /\ run_pc = "sleeping"
    /\ call = NoCall
    /\ untracked = {}

\* execute up to its match on event_kind
NextOffer ==
    \/ ExecSkip
    \/ ExecAccept

SpecOffer == InitOffer /\ [][NextOffer]_vars

\* ------------------------------------------------------------------ a notification delivered twice
\* the processes whose transform is the identity, as registered
IdentityConfigs == { <<A2B>>, <<A2C>>, <<A2B, A2C>> }

\* the watcher delivers one Modify notification of an external write twice in
\* a row (the second one is marked "dup"); the files hold anything, the
\* notification's file exists, and nothing else happens from outside
InitDup ==
    /\ fs \in {f \in [AllFiles -> {None} \cup {Some(c) : c \in ExtContents}] :
                  \A p \in AllFiles : FileName(p) = Some("t.chat") => f[p] = None}
    /\ \E p \in Files :
          /\ is_file(p)
          /\ queue = << [path |-> p, kind |-> Modify, cause |-> "ext", paired |-> FALSE],
                        [path |-> p, kind |-> Modify, cause |-> "dup", paired |-> FALSE] >>
    /\ sync_map = <<>>
    /\ processes \in IdentityConfigs
    /\ pc = "idle"
    /\ file_event = NoEvent
    /\ idx = 0
    /\ target_path = <<>>
    /\ transformed = EmptyText
    /\ ext_count = 0
    /\ fail_count = 0
    /\ note = NoNote
    /\ writers = [p \in AllFiles |-> {}]
    /\ outcomes = <<>>
    /\ stdout = <<>>
    /\ written = {}
    /\ lock = 0
    /\ threads = [t \in Threads |-> NoCallback]
    /\ watch_paths = <<PathStr(WatchRoot)>>
    /\ run_pc = "sleeping"
    /\ call = NoCall
    /\ untracked = {}

\* the callback, with reads and writes that succeed
NextDup ==
    \/ ReceiveWrite
    \/ ExecSkip
    \/ ExecAccept
    \/ ExecRead
    \/ ExecWrite
    \/ ExecInsert
    \/ Return

SpecDup == InitDup /\ [][NextDup]_vars

\* ------------------------------------------------------------------ two callbacks, one registry
\* The registry is an Arc<Mutex<HashMap>>: here two callbacks run side by side
\* on two threads and meet at the registry only.  Each classifies the path of
\* its notification (lock, get, unlock) and then, as the in-place Chat
\* processor does after its write, records the path (lock, insert, unlock).
\* HashMap::insert is no single machine step: it reads the table, claims a slot
\* (the entry is half-written, its value still missing) and stores the table
\* with the entry.

\* all but the registry, its lock and the two threads
Watcher == <<fs, queue, processes, watch_paths, run_pc, call, untracked, pc, file_event, idx, target_path, transformed,
             ext_count, fail_count, note, writers, outcomes, stdout, written>>

\* the paths the two callbacks are called for
LockPaths == {InDir("a", "t.chat"), InDir("b", "t.chat")}

\* the value of a slot that is claimed and not yet written
HalfWritten == ""

InitLock == Init /\ processes = <<CHAT>>

\* the watcher calls the callback with a notification for path p
ThreadTake(t) ==
    \E p \in LockPaths :
        /\ threads[t].pc = "start"
        /\ threads' = [threads EXCEPT ![t] = [NoCallback EXCEPT !.pc = "classify", !.key = PathStr(p)]]
        /\ UNCHANGED <<sync_map, lock, Watcher>>

\* sync_map_clone.lock().unwrap() in the callback
ThreadLockGet(t) ==
    /\ threads[t].pc = "classify"
    /\ MutexFree
    /\ lock' = t
    /\ threads' = [threads EXCEPT ![t].pc = "get"]
    /\ UNCHANGED <<sync_map, Watcher>>

\* .get(&path_str), and the guard is dropped
ThreadGet(t) ==
    /\ threads[t].pc = "get"
    /\ threads' = [threads EXCEPT ![t].pc = "write",
                                  ![t].got = IF threads[t].key \in DOMAIN sync_map
                                             THEN Some(sync_map[threads[t].key]) ELSE None]
    /\ lock' = 0
    /\ UNCHANGED <<sync_map, Watcher>>

\* sync_map.lock().unwrap() in execute, after the write
ThreadLockInsert(t) ==
    /\ threads[t].pc = "write"
    /\ MutexFree
    /\ lock' = t
    /\ threads' = [threads EXCEPT ![t].pc = "insert"]
    /\ UNCHANGED <<sync_map, Watcher>>

\* .insert(target_path_str, name), first half: the table is read and the slot claimed
ThreadClaim(t) ==
    /\ threads[t].pc = "insert"
    /\ threads' = [threads EXCEPT ![t].pc = "store", ![t].seen = sync_map]
    /\ sync_map' = Track(sync_map, threads[t].key, HalfWritten)
    /\ UNCHANGED <<lock, Watcher>>

\* .insert, second half: the table is stored with the entry; the guard is dropped
ThreadStore(t) ==
    /\ threads[t].pc = "store"
    /\ sync_map' = Track(threads[t].seen, threads[t].key, CHAT)
    /\ threads' = [threads EXCEPT ![t].pc = "inserted", ![t].seen = <<>>]
    /\ lock' = 0
    /\ UNCHANGED Watcher

\* the callback returns
ThreadReturn(t) ==
    /\ threads[t].pc = "inserted"
    /\ threads' = [threads EXCEPT ![t] = NoCallback]
    /\ UNCHANGED <<sync_map, lock, Watcher>>

NextLock ==
    \E t \in Threads :
        \/ ThreadTake(t)
        \/ ThreadLockGet(t)
        \/ ThreadGet(t)
        \/ ThreadLockInsert(t)
        \/ ThreadClaim(t)
        \/ ThreadStore(t)
        \/ ThreadReturn(t)

SpecLock == InitLock /\ [][NextLock]_vars

\* ------------------------------------------------------------------ Manager::run, from its call
\* a path that names no directory: watcher.watch fails on it
MissingRoot == Cwd \o <<"_nowhere">>

\* main's run, a manager with nothing registered, one with no path to watch,
\* and one whose watch path does not exist
InitRun ==
    /\ fs = [p \in AllFiles |-> None]
    /\ queue = <<>>
    /\ sync_map = <<>>
    /\ processes \in {<<>>, <<A2B, A2C>>}
    /\ watch_paths \in {<<>>, <<PathStr(WatchRoot)>>, <<PathStr(MissingRoot)>>}
    /\ run_pc = "called"
    /\ call = NoCall
    /\ untracked = {}
    /\ pc = "idle"
    /\ file_event = NoEvent
    /\ idx = 0
    /\ target_path = <<>>
    /\ transformed = EmptyText
    /\ ext_count = 0
    /\ fail_count = 0
    /\ note = NoNote
    /\ writers = [p \in AllFiles |-> {}]
    /\ outcomes = <<>>
    /\ stdout = <<>>
    /\ written = {}
    /\ lock = 0
    /\ threads = [t \in Threads |-> NoCallback]

\* all but where run is and the count of failures
Managed == <<fs, queue, sync_map, processes, watch_paths, call, untracked, pc, file_event, idx, target_path,
             transformed, ext_count, note, writers, outcomes, stdout, written, lock, threads>>

\* "if self.watch_paths.is_empty() { println!(..); return Ok(()); }"
RunNoPaths ==
    /\ run_pc = "called"
    /\ watch_paths = <<>>
    /\ run_pc' = "Ok"
    /\ UNCHANGED <<fail_count, Managed>>

\* "if self.processes.is_empty() { println!(..); return Ok(()); }"
RunNoProcesses ==
    /\ run_pc = "called"
    /\ watch_paths # <<>>
    /\ processes = <<>>
    /\ run_pc' = "Ok"
    /\ UNCHANGED <<fail_count, Managed>>

\* recommended_watcher(callback)? returns the watcher
RunWatcher ==
    /\ run_pc = "called"
    /\ watch_paths # <<>> /\ processes # <<>>
    /\ run_pc' = "watch"
    /\ UNCHANGED <<fail_count, Managed>>

\* recommended_watcher(callback)? fails: run returns the error
RunWatcherErr ==
    /\ run_pc = "called"
    /\ watch_paths # <<>> /\ processes # <<>>
    /\ fail_count < MaxFail
    /\ fail_count' = fail_count + 1
    /\ run_pc' = "Err"
    /\ UNCHANGED Managed

\* watcher.watch(path, Recursive)? for every path: the directory is there
Watchable(path) == path = PathStr(WatchRoot)

RunWatch ==
    /\ run_pc = "watch"
    /\ \A i \in 1..Len(watch_paths) : Watchable(watch_paths[i])
    /\ run_pc' = "loop"
    /\ UNCHANGED <<fail_count, Managed>>

\* watcher.watch(..)? fails: run returns the error and the watcher is dropped
RunWatchErr ==
    /\ run_pc = "watch"
    /\ \E i \in 1..Len(watch_paths) : ~Watchable(watch_paths[i])
    /\ run_pc' = "Err"
    /\ UNCHANGED <<fail_count, Managed>>

\* a loop that ends after its first sleep
RunWakeOnce ==
    /\ run_pc = "sleeping"
    /\ run_pc' = "Ok"
    /\ UNCHANGED <<fail_count, Managed>>

\* "loop { std::thread::sleep(1 s); }": into the sleep, and back to the loop
RunSleep ==
    /\ run_pc = "loop"
    /\ run_pc' = "sleeping"
    /\ UNCHANGED <<fail_count, Managed>>

RunWake ==
    /\ run_pc = "sleeping"
    /\ run_pc' = "loop"
    /\ UNCHANGED <<fail_count, Managed>>

\* the program is stopped from outside (a signal)
ExtStop ==
    /\ run_pc \in {"called", "watch", "loop", "sleeping"}
    /\ run_pc' = "killed"
    /\ UNCHANGED <<fail_count, Managed>>

\* the watches are established and run is in its loop: the watcher delivers
Running == run_pc \in {"loop", "sleeping"}

NextRun ==
    \/ RunNoPaths
    \/ RunNoProcesses
    \/ RunWatcher
    \/ RunWatcherErr
    \/ RunWatch
    \/ RunWatchErr
    \/ RunSleep
    \/ RunWake
    \/ ExtStop
    \/ (Running /\ ExtWrite)
    \/ (Running /\ ExtDelete)
    \/ (Running /\ ExtOther)
    \/ (Running /\ ReceiveWrite)
    \/ (Running /\ ReceiveGone)
    \/ (Running /\ ReceiveRemove)
    \/ (Running /\ ReceiveOther)
    \/ (Running /\ ExecSkip)
    \/ (Running /\ ExecAccept)
    \/ (Running /\ ExecRead)
    \/ (Running /\ ExecReadErr)
    \/ (Running /\ ExecWrite)
    \/ (Running /\ ExecWriteErr)
    \/ (Running /\ ExecInsert)
    \/ (Running /\ ExecRemove)
    \/ (Running /\ ExecRemoveAbsent)
    \/ (Running /\ ExecRemoveErr)
    \/ (Running /\ ExecUntrack)
    \/ (Running /\ Return)

SpecRun == InitRun /\ [][NextRun]_vars

\* ------------------------------------------------------------------ the four exported processors together
\* everything the processors module exports, registered in its order
Exported == <<A2B, A2C, CHAT, PERSONA>>

InitQuiet ==
    /\ fs = [p \in AllFiles |-> None]
    /\ queue = <<>>
    /\ sync_map = <<>>
    /\ processes = Exported
    /\ watch_paths = <<PathStr(WatchRoot)>>
    /\ run_pc = "sleeping"
    /\ call = NoCall
    /\ untracked = {}
    /\ pc = "idle"
    /\ file_event = NoEvent
    /\ idx = 0
    /\ target_path = <<>>
    /\ transformed = EmptyText
    /\ ext_count = 0
    /\ fail_count = 0
    /\ note = NoNote
    /\ writers = [p \in AllFiles |-> {}]
    /\ outcomes = <<>>
    /\ stdout = <<>>
    /\ written = {}
    /\ lock = 0
    /\ threads = [t \in Threads |-> NoCallback]

\* the one external change: a user creates x.txt under _mara/a
ExtCreate ==
    \E c \in ExtContents :
        /\ ext_count = 0
        /\ ext_count' = 1
        /\ fs' = [fs EXCEPT ![InDir("a", "x.txt")] = Some(c)]
        /\ queue' = Notify(queue, InDir("a", "x.txt"), Create, "ext")
        /\ UNCHANGED Dispatcher

\* the callback, with reads and writes that succeed, and no other change from
\* outside
NextQuiet ==
    \/ ExtCreate
    \/ ReceiveWrite
    \/ ExecSkip
    \/ ExecAccept
    \/ ExecRead
    \/ ExecWrite
    \/ ExecInsert
    \/ Return

SpecQuiet == InitQuiet /\ [][NextQuiet]_vars

\* the watcher's thread keeps running
FairQuiet == SpecQuiet /\ WF_vars(Callback) /\ WF_pc(ReadReturns)

\* ------------------------------------------------------------------ A<->C, edits on both sides
\* A<->C is registered alone or, as in main, after A->B
\* x under _mara/a and x under _mara/c
BothSides == {InDir("a", "x.txt"), InDir("c", "x.txt")}

\* what the k-th external edit writes: each edit has a content of its own
EditContent(k) ==
    [i \in 1..k |-> <<"hi">>]

InitConv ==
    /\ fs = [p \in AllFiles |-> None]
    /\ queue = <<>>
    /\ sync_map = <<>>
    /\ processes \in {<<A2C>>, <<A2B, A2C>>}
    /\ watch_paths = <<PathStr(WatchRoot)>>
    /\ run_pc = "sleeping"
    /\ call = NoCall
    /\ untracked = {}
    /\ pc = "idle"
    /\ file_event = NoEvent
    /\ idx = 0
    /\ target_path = <<>>
    /\ transformed = EmptyText
    /\ ext_count = 0
    /\ fail_count = 0
    /\ note = NoNote
    /\ writers = [p \in AllFiles |-> {}]
    /\ outcomes = <<>>
    /\ stdout = <<>>
    /\ written = {}
    /\ lock = 0
    /\ threads = [t \in Threads |-> NoCallback]

\* a user creates or modifies x on one of the two sides
ExtEdit ==
    \E p \in BothSides :
        /\ ext_count < MaxExt
        /\ ext_count' = ext_count + 1
        /\ fs' = [fs EXCEPT ![p] = Some(EditContent(ext_count + 1))]
        /\ queue' = Notify(queue, p, WriteKind(p), "ext")
        /\ UNCHANGED Dispatcher

\* the callback, with reads and writes that succeed
NextConv ==
    \/ ExtEdit
    \/ ReceiveWrite
    \/ ExecSkip
    \/ ExecAccept
    \/ ExecRead
    \/ ExecWrite
    \/ ExecInsert
    \/ Return

SpecConv == InitConv /\ [][NextConv]_vars

\* the watcher's thread keeps running
FairConv == SpecConv /\ WF_vars(Callback) /\ WF_pc(ReadReturns)

\* ------------------------------------------------------------------ A->B alone, files in and beside _mara/a
\* a file named a.txt directly in the watched root: its path contains "_mara/a"
BesideA == WatchRoot \o <<"a.txt">>

\* the files a user writes here, and all files of this tree
LoopInputs == {InDir("a", "x.txt"), InDir("b", "x.txt"), InDir("a", "t.chat"), BesideA}
LoopFiles == LoopInputs \cup {InDir("b", "a.txt")}

InitLoop ==
    /\ fs = [p \in LoopFiles |-> None]
    /\ queue = <<>>
    /\ sync_map = <<>>
    /\ processes = <<A2B>>
    /\ watch_paths = <<PathStr(WatchRoot)>>
    /\ run_pc = "sleeping"
    /\ call = NoCall
    /\ untracked = {}
    /\ pc = "idle"
    /\ file_event = NoEvent
    /\ idx = 0
    /\ target_path = <<>>
    /\ transformed = EmptyText
    /\ ext_count = 0
    /\ fail_count = 0
    /\ note = NoNote
    /\ writers = [p \in LoopFiles |-> {}]
    /\ outcomes = <<>>
    /\ stdout = <<>>
    /\ written = {}
    /\ lock = 0
    /\ threads = [t \in Threads |-> NoCallback]

\* a user creates or modifies one of those files
ExtTouch ==
    \E p \in LoopInputs, c \in ExtContents :
        /\ ext_count < MaxExt
        /\ ext_count' = ext_count + 1
        /\ fs' = [fs EXCEPT ![p] = Some(c)]
        /\ queue' = Notify(queue, p, WriteKind(p), "ext")
        /\ UNCHANGED Dispatcher

\* the callback, with reads and writes that succeed
NextLoop ==
    \/ ExtTouch
    \/ ReceiveWrite
    \/ ExecSkip
    \/ ExecAccept
    \/ ExecRead
    \/ ExecWrite
    \/ ExecInsert
    \/ Return

SpecLoop == InitLoop /\ [][NextLoop]_vars

\* ------------------------------------------------------------------ a transform, called on its own
\* all but call
Manager == <<fs, queue, sync_map, processes, watch_paths, run_pc, untracked, pc, file_event, idx,
             target_path, transformed, ext_count, fail_count, note, writers, outcomes,
             stdout, written, lock, threads>>

\* a manager with the one process ps registered, and nothing going on
AtRest(ps) ==
    /\ fs = [p \in AllFiles |-> None]
    /\ queue = <<>>
    /\ sync_map = <<>>
    /\ processes = <<ps>>
    /\ watch_paths = <<PathStr(WatchRoot)>>
    /\ run_pc = "sleeping"
    /\ pc = "idle"
    /\ file_event = NoEvent
    /\ idx = 0
    /\ target_path = <<>>
    /\ transformed = EmptyText
    /\ ext_count = 0
    /\ fail_count = 0
    /\ note = NoNote
    /\ writers = [p \in AllFiles |-> {}]
    /\ outcomes = <<>>
    /\ stdout = <<>>
    /\ written = {}
    /\ lock = 0
    /\ threads = [t \in Threads |-> NoCallback]
    /\ untracked = {}

\* the lines of a sequence of blocks, and the text they make with its final newline
RECURSIVE Flatten(_)
Flatten(blocks) == IF blocks = <<>> THEN <<>> ELSE Head(blocks) \o Flatten(Tail(blocks))

TextOf(blocks) == Flatten(blocks) \o << <<>> >>

\* one or two blocks of a set
UpToTwo(S) == {<<b>> : b \in S} \cup {<<b, c>> : b \in S, c \in S}

\* ------------------------------------------------------------------ the command transform, twice
\* the commands a user types, and the result lines a block of the file holds:
\* none, a blank line, one line, two lines
Commands == {"echo", "ls", "true"}
ResultLines == { <<>>, << <<>> >>, << <<"f">> >>, << <<"f">>, <<"g">> >> }

\* a block of a .command file: a command just typed, or a command with its
\* separators and result lines
CommandBlocks ==
    {<< <<c>> >> : c \in Commands}
        \cup {<< <<c>>, <<DASHES>> >> \o r \o << <<FIVE>> >> : c \in Commands, r \in ResultLines}

CommandInputs == {TextOf(bs) : bs \in UpToTwo(CommandBlocks)}

InitCommand ==
    /\ AtRest(COMMAND)
    /\ call \in {[pc |-> "first", content |-> c, rendered |-> EmptyText, executed |-> <<>>] :
                    c \in CommandInputs}

\* the transform of create_command_processor on a content
CommandFirst ==
    /\ call.pc = "first"
    /\ call' = [pc |-> "second",
                content |-> call.content,
                rendered |-> Unwrap(command_transform(NoEvent, call.content)),
                executed |-> CommandExecuted(CommandLog_parse(call.content))]
    /\ UNCHANGED Manager

\* the transform again, on what it returned
CommandSecond ==
    /\ call.pc = "second"
    /\ call' = [pc |-> "done",
                content |-> call.rendered,
                rendered |-> Unwrap(command_transform(NoEvent, call.rendered)),
                executed |-> CommandExecuted(CommandLog_parse(call.rendered))]
    /\ UNCHANGED Manager

NextCommand ==
    \/ CommandFirst
    \/ CommandSecond

SpecCommand == InitCommand /\ [][NextCommand]_vars

\* ------------------------------------------------------------------ Chat::parse and Chat::render, round trip
\* personas: a name, a name with a blank inside, none, a name after a blank,
\* and a name that ends with a colon
Personas == { <<"Alice">>, <<"Bob", SP, "B">>, <<>>, <<SP, "Alice">>, <<"a", COLON>> }

\* contents, trimmed and not empty: one line, a blank inside a line, a second
\* line that ends with a colon, an empty line between two lines
ChatContents ==
    { << <<"hi">> >>, << <<"hi", SP, "you">> >>, << <<"hi">>, <<"there", COLON>> >>,
      << <<"hi">>, <<>>, <<"x">> >> }

ChatMessages == {Message(p, c) : p \in Personas, c \in ChatContents}

\* the block of a message: "<persona>:", the content lines, "------"
ChatBlock(msg) == <<msg.persona \o <<COLON>> >> \o msg.content \o << <<DASHES>> >>

\* the text in canonical form of a sequence of messages
CanonicalText(messages) == TextOf([i \in 1..Len(messages) |-> ChatBlock(messages[i])])

InitChat ==
    /\ AtRest(CHAT)
    /\ call \in {[pc |-> "start", messages |-> ms, text |-> CanonicalText(ms),
                  rendered |-> EmptyText, parsed |-> <<>>] : ms \in UpToTwo(ChatMessages)}

\* Chat::parse(text).render(), and Chat::parse of the chat's render()
ChatRoundTrip ==
    /\ call.pc = "start"
    /\ call' = [call EXCEPT !.pc = "done",
                            !.rendered = Chat_render(Chat_parse(call.text)),
                            !.parsed = Chat_parse(Chat_render(call.messages))]
    /\ UNCHANGED Manager

\* the text and the chat are taken for the next round
ChatAgain ==
    /\ call.pc = "done"
    /\ call' = [call EXCEPT !.pc = "start", !.text = call.rendered, !.messages = call.parsed]
    /\ UNCHANGED Manager

NextChat ==
    \/ ChatRoundTrip
    \/ ChatAgain

SpecChat == InitChat /\ [][NextChat]_vars

\* ------------------------------------------------------------------ a file written again after its Delete was handled
\* a user writes a file that a Delete took out of the registry
ExtRecreate ==
    \E p \in Files \cap untracked, c \in ExtContents :
        /\ ext_count <= MaxExt
        /\ ~is_file(p)
        /\ ext_count' = ext_count + 1
        /\ fs' = [fs EXCEPT ![p] = Some(c)]
        /\ queue' = Notify(queue, p, WriteKind(p), "ext")
        /\ UNCHANGED Dispatcher

NextDelete ==
    \/ ExtRecreate
    \/ Next

SpecDelete == Init /\ [][NextDelete]_vars

\* ------------------------------------------------------------------ the todo transform on an edited list
\* texts typed under "Neues Todo:", one of them with a checkbox of its own
TypedTexts == { <<"Milch">>, <<LB, "x", RB, SP, "Brot">> }

\* the listed todos: a checkbox as the user leaves it, and a text
ListedTexts == { <<"Rasen">>, <<"Muell", SP, "raus">> }
Boxes == { <<>>, <<SP>>, <<"x">>, <<"X">> }
ListedTodos == {[box |-> b, text |-> t] : b \in Boxes, t \in ListedTexts}
MaxTodos == 5

\* the line of a listed todo
ListedLine(e) == <<LB>> \o e.box \o <<RB, SP>> \o e.text

\* a todo file: the typed lines, the list, and the list under a separator
TodoFile(typed, listed, below) ==
    << <<NEU>> >> \o typed \o << <<>>, <<TODOS>> >>
      \o [i \in 1..Len(listed) |-> ListedLine(listed[i])]
      \o (IF below # <<>> THEN << <<RULE>> >> ELSE <<>>)
      \o [i \in 1..Len(below) |-> ListedLine(below[i])]
      \o << <<>> >>

TodoCall(typed, listed, below) ==
    [pc |-> "start", typed |-> typed, listed |-> listed, below |-> below,
     content |-> TodoFile(typed, listed, below), rendered |-> EmptyText]

InitTodo ==
    /\ AtRest(TODO)
    /\ call \in {TodoCall(typed, listed, below) :
                   typed \in {<<>>} \cup UpToTwo(TypedTexts),
                   listed \in {<<>>} \cup UpToTwo(ListedTodos),
                   below \in {<<>>} \cup {<<e>> : e \in ListedTodos}}

\* the transform of the Todo processor on the file
TodoTransform ==
    /\ call.pc = "start"
    /\ call' = [call EXCEPT !.pc = "done",
                            !.rendered = todo_transform(NoEvent, call.content)[1]]
    /\ UNCHANGED Manager

\* the user types a todo into the file the transform left
TodoType ==
    /\ call.pc = "done"
    /\ Len(Lines(call.rendered)) < 3 + MaxTodos
    /\ \E t \in TypedTexts :
         LET lines == Lines(call.rendered)
             edited == << <<NEU>>, t >> \o Tail(lines) \o << <<>> >>
             k == FindFrom(lines, <<RULE>>, 1)
             above == IF k = 0 THEN SubSeq(lines, 4, Len(lines))
                      ELSE SubSeq(lines, 4, k - 1)
             under == IF k = 0 THEN <<>> ELSE SubSeq(lines, k + 1, Len(lines))
         IN call' = [pc |-> "start", typed |-> <<t>>,
                     listed |-> [i \in 1..Len(above) |->
                                   [box |-> <<>>, text |-> SubSeq(above[i], 4, Len(above[i]))]],
                     below |-> [i \in 1..Len(under) |->
                                   [box |-> <<"x">>, text |-> SubSeq(under[i], 5, Len(under[i]))]],
                     content |-> edited, rendered |-> EmptyText]
    /\ UNCHANGED Manager

NextTodo ==
    \/ TodoTransform
    \/ TodoType

SpecTodo == InitTodo /\ [][NextTodo]_vars

\* ------------------------------------------------------------------ the todo transform, twice
\* lines a todo file may hold: headers, the separator, typed text, todos
\* with blanks around the checkbox and the text, a line with no "]"
TodoRawLines ==
    { <<NEU>>, <<TODOS>>, <<RULE>>, <<>>, <<"Milch">>,
      <<SP, LB, SP, RB, SP, SP, "Rasen", SP>>, <<LB, "x", RB, SP, "Muell">>,
      <<LB, "X", RB, "Tee">>, <<LB, "Rasen">>, <<NEU, SP, "Brot">> }
MaxRaw == 3

\* texts of canonical entries, one with a "]" and one with a checkbox in it
CanonTexts == { <<>>, <<"Rasen">>, <<"a", RB, "b">>, <<LB, "x", RB, SP, "Brot">> }

\* the rendered form: header, "[] " entries, and the separator with
\* "[x] " entries if there are any
CanonicalTodo(open, closed) ==
    << <<NEU>>, <<>>, <<TODOS>> >>
      \o [i \in 1..Len(open) |-> <<LB, RB, SP>> \o open[i]]
      \o (IF closed # <<>> THEN << <<RULE>> >> ELSE <<>>)
      \o [i \in 1..Len(closed) |-> <<LB, "x", RB, SP>> \o closed[i]]
      \o << <<>> >>

RECURSIVE SeqsUpTo(_, _)
SeqsUpTo(S, n) ==
    IF n = 0 THEN {<<>>}
    ELSE LET shorter == SeqsUpTo(S, n - 1)
         IN shorter \cup {Append(q, x) : q \in shorter, x \in S}

TodoTexts ==
    {ls \o << <<>> >> : ls \in SeqsUpTo(TodoRawLines, MaxRaw) \ {<<>>}}
      \cup {CanonicalTodo(open, closed) :
              open \in {<<>>} \cup UpToTwo(CanonTexts),
              closed \in {<<>>} \cup UpToTwo(CanonTexts)}

InitTwice ==
    /\ AtRest(TODO)
    /\ call \in {[pc |-> "first", content |-> t, once |-> EmptyText, twice |-> EmptyText] :
                   t \in TodoTexts}

\* the transform on the file
TodoOnce ==
    /\ call.pc = "first"
    /\ call' = [call EXCEPT !.pc = "second",
                            !.once = todo_transform(NoEvent, call.content)[1]]
    /\ UNCHANGED Manager

\* the transform on the file the first transform left
TodoTwice ==
    /\ call.pc = "second"
    /\ call' = [call EXCEPT !.pc = "done",
                            !.twice = todo_transform(NoEvent, call.once)[1]]
    /\ UNCHANGED Manager

NextTwice ==
    \/ TodoOnce
    \/ TodoTwice

SpecTwice == InitTwice /\ [][NextTwice]_vars

\* ------------------------------------------------------------------ the persona rewrite of a file of blocks
\* texts that are not empty: trimmed ones, one with a blank in front, one
\* with an empty line at its end, one that is a single blank
PersonaTexts ==
    ChatContents \cup { << <<SP, "hi">> >>, << <<"hi">>, <<>> >>, << <<SP>> >> }

PersonaBlocks == {<<p, t>> : p \in Personas, t \in PersonaTexts}

\* "<persona>:" blocks with their text, separated by "------" lines, and
\* a final newline
PersonaFile(blocks) ==
    LET block(i) == <<blocks[i][1] \o <<COLON>> >> \o blocks[i][2]
                      \o (IF i < Len(blocks) THEN << <<DASHES>> >> ELSE <<>>)
    IN TextOf([i \in 1..Len(blocks) |-> block(i)])

InitPersona ==
    /\ AtRest(PERSONA)
    /\ call \in {[pc |-> "start", blocks |-> bs, text |-> PersonaFile(bs),
                  rendered |-> EmptyText] : bs \in UpToTwo(PersonaBlocks)}

\* the transform of the Persona parser on the file
PersonaRewrite ==
    /\ call.pc = "start"
    /\ call' = [call EXCEPT !.pc = "done",
                            !.rendered = persona_transform(NoEvent, call.text)[1]]
    /\ UNCHANGED Manager

NextPersona == PersonaRewrite

SpecPersona == InitPersona /\ [][NextPersona]_vars

\* ------------------------------------------------------------------ claims
\* an event is being dispatched
Dispatching == pc \notin {"idle", "dropped", "skipped"}

\* the event being dispatched is about a write (Create or Modify)
OfWrite == Dispatching /\ file_event.event_kind \in {Create, Modify}

\* the event being dispatched comes from a write or remove by a process
ByProcess == Dispatching /\ note.cause \in Procs

\* C1: the notification that a write by process N to path P raises is
\* dispatched with origin Internal(N).
C1_OriginRoundTrip ==
    (OfWrite /\ ByProcess) => file_event.origin = Internal(note.cause)

\* C2: a mapping is used once: the notification of an external edit of a
\* path that no process wrote since a notification for that path was last
\* classified is classified External.
C2_SingleUse ==
    (OfWrite /\ note.cause = "ext" /\ ~note.had_pending) => file_event.origin = External

\* C3: when two processes wrote one path and no notification for that path
\* was classified in between, each of the two notifications is classified
\* Internal(its own writer), in the order of the writes.
C3_Fifo ==
    (OfWrite /\ note.paired) => file_event.origin = Internal(note.cause)

\* the mapping {target, process name} is in the registry
Recorded == PathStr(target_path) \in DOMAIN sync_map /\ sync_map[PathStr(target_path)] = name

\* C4: once execute has written (or removed) its target, the mapping
\* {target, process name} is already in the registry.
C4_RecordBeforeWrite ==
    pc \in {"insert", "untrack"} => Recorded

\* C5: the notification a process's write raises is never classified
\* External, however soon after the write it is classified.
C5_WriteBeforeClassify ==
    (OfWrite /\ ByProcess) => file_event.origin # External

\* C6: with A<->C alone, the notification of A<->C's own write is
\* classified Internal(A<->C) and A<->C does not act on it: no second hop.
C6_OneHop ==
    (processes = <<A2C>> /\ OfWrite /\ note.cause = A2C)
        => (file_event.origin = Internal(A2C) /\ pc \in {"filter", "done"})

\* the step is a failure of the process at idx
Fails == Len(outcomes') = Len(outcomes) + 1 /\ outcomes'[Len(outcomes')] = "err"

\* C7: a failing process changes neither the files, the notifications, the
\* registry nor the event, and dispatch goes on with the next process: when
\* dispatch ends, every process has been offered the event.
C7_ErrorIsolation ==
    /\ [](pc = "done" => Len(outcomes) = Len(processes))
    /\ [][Fails => /\ fs' = fs /\ queue' = queue /\ sync_map' = sync_map
                   /\ file_event' = file_event
                   /\ IF idx < Len(processes)
                      THEN pc' = "filter" /\ idx' = idx + 1
                      ELSE pc' = "done"]_vars

\* C7, witness: a process failed and a process after it wrote its target
C7_Witness ==
    /\ pc = "done"
    /\ \E i, j \in 1..Len(outcomes) : i < j /\ outcomes[i] = "err" /\ outcomes[j] = "ok"

\* C8: a processor that is offered an event whose origin is Internal(its
\* own name) does not go on to read, write or remove.
C8_SelfExclusion ==
    pc \in {"read", "remove"} => file_event.origin # Internal(name)

\* C9: the Remove notification that a process's removal of its target
\* raises is dispatched with origin Internal(that process).
C9_DeleteAttribution ==
    (ByProcess /\ file_event.event_kind = Delete) => file_event.origin = Internal(note.cause)

\* the registry holds a mapping for the file the path names
MappedFile(path) == {k \in DOMAIN sync_map : Resolve(k) = Resolve(path)}

\* C10: when the registry holds a mapping for the notification's file,
\* under a relative or an absolute path, the event is classified Internal
\* with the process of such a mapping.
C10_PathNormalization ==
    (OfWrite /\ pc = "filter" /\ idx = 1 /\ MappedFile(file_event.path) # {})
        => /\ file_event.origin.internal
           /\ \E k \in MappedFile(file_event.path) :
                 sync_map[k] = file_event.origin.process_name

\* C11: the event of a notification for a file that no process has ever
\* written is dispatched with origin External.
C11_NeverWrittenExternal ==
    (Dispatching /\ Resolve(file_event.path) \notin written) => file_event.origin = External

\* C11, witness: the registry holds mappings, and an event for a file no
\* process wrote is being dispatched
C11_Witness ==
    /\ Dispatching /\ file_event.event_kind \in {Create, Modify}
    /\ Resolve(file_event.path) \notin written
    /\ written # {} /\ DOMAIN sync_map # {}

\* C12: from the first process to the last, the event offered is the one
\* built before the loop: no step of a dispatch changes file_event.
C12_OriginFixed ==
    [][(Dispatching /\ pc' # "idle") => file_event' = file_event]_vars

\* C12, witness: the first process has recorded a mapping for the event's own
\* path, and the second is offered the event with the origin External
C12_Witness ==
    /\ pc = "filter" /\ idx = 2 /\ outcomes = <<"ok">>
    /\ PathStr(file_event.path) \in DOMAIN sync_map
    /\ sync_map[PathStr(file_event.path)] = processes[1]
    /\ file_event.origin = External

\* C13: the processes are offered an event one after another in the order of
\* processes (registration order): while process idx runs, exactly the
\* processes before it have finished, and the next to start is idx + 1.
C13_RegistrationOrder ==
    /\ []((Dispatching /\ pc # "done")
            => (idx \in 1..Len(processes) /\ Len(outcomes) = idx - 1))
    /\ [][/\ processes' = processes
          /\ (idx' # idx) => \/ (idx = 0 /\ idx' = 1)
                              \/ (idx' = idx + 1 /\ Len(outcomes') = idx)
                              \/ (idx' = 0 /\ pc = "done")]_vars

\* C13, witness: the second process writes after the first has finished
C13_Witness ==
    /\ pc = "write" /\ idx = 2 /\ name = processes[2]
    /\ outcomes \in {<<"ok">>, <<"skip">>, <<"err">>}

\* C14: a notification whose kind is not Create, Modify or Remove is taken
\* from the queue and dropped: no FileEvent is built, no process runs, nothing
\* is printed, and the files and the registry stay as they are.
C14_OtherKindsDropped ==
    /\ [](pc = "dropped" => (file_event = NoEvent /\ idx = 0 /\ outcomes = <<>>
                                /\ stdout = <<>>))
    /\ [][(/\ pc = "idle" /\ queue # <<>>
           /\ Head(queue).kind \notin {Create, Modify, "Remove"}
           /\ queue' = Tail(queue))
              => (pc' = "dropped" /\ fs' = fs /\ sync_map' = sync_map)]_vars
    /\ [][(pc = "dropped" /\ pc' # pc)
              => (pc' = "idle" /\ fs' = fs /\ sync_map' = sync_map)]_vars

\* C14, witness: a notification of another kind was dropped while files and
\* mappings exist
C14_Witness ==
    /\ pc = "dropped"
    /\ DOMAIN sync_map # {}
    /\ \E p \in Files : is_file(p)

\* C15: a process that accepted a Delete event removes its target when the
\* target exists (or reports the failure of the removal); when the target is
\* absent it removes nothing, and in both cases it then ends without error.
C15_DeleteHandling ==
    /\ [][(pc = "remove" /\ pc' # pc)
              => IF is_file(target_path)
                 THEN \/ (pc' = "untrack" /\ ~IsSome(fs'[Resolve(target_path)]))
                      \/ Fails
                 ELSE /\ pc' = "untrack" /\ fs' = fs
                      /\ outcomes' = outcomes /\ stdout' = stdout]_vars
    /\ [][(pc = "untrack" /\ pc' # pc)
              => /\ outcomes' = Append(outcomes, "ok")
                 /\ stdout' = Append(stdout, DeleteLine(name, file_event, target_path))]_vars

\* C15, witness: a process accepted a Delete event whose target was absent
\* (its removal would have raised a notification) and ended without error
C15_Witness ==
    /\ pc = "done" /\ file_event.event_kind = Delete
    /\ outcomes = <<"ok">> /\ queue = <<>>

\* C16: while an event is dispatched, the output of the callback starts with
\* the line of that event (kind, origin, path) and holds no other event line;
\* when the first process's filter is about to run, that line is all there is.
C16_AuditOrdering ==
    /\ Dispatching => /\ stdout # <<>>
                      /\ stdout[1] = EventLine(file_event)
                      /\ \A i \in 2..Len(stdout) : stdout[i].line # "EVENT"
    /\ (pc = "filter" /\ idx = 1) => stdout = <<EventLine(file_event)>>

\* C16, witness: a dispatch in which two processes wrote and printed their lines
C16_Witness ==
    /\ pc = "done" /\ Len(stdout) = 3
    /\ stdout[2].line = "sync" /\ stdout[3].line = "sync"

\* a new callback has taken a notification from the queue
Taken == pc \in {"dropped", "skipped"} \/ (pc = "filter" /\ idx = 1 /\ outcomes = <<>>)

\* C17: after a failure of a process, as long as notifications wait in the
\* queue the callback goes on to take the next one: the failure does not
\* stop the run loop.
C17_RunLoopSurvives ==
    /\ ((\E i \in 1..Len(outcomes) : outcomes[i] = "err") /\ queue # <<>>) ~> Taken
    /\ (fail_count > 0 /\ queue # <<>>) ~> Taken

\* C17, witness: after a failed write or remove, a later notification is
\* dispatched and a process writes for it
C17_Witness ==
    /\ fail_count > 0 /\ outcomes = <<>>
    /\ pc = "insert" /\ idx = 1

\* the event being dispatched is for a .txt file of root A
OfTxtInA == \E n \in {"x.txt"} : file_event.path = InDir("a", n)

\* the file of the same name under root B, as the target names it and on disk
Mirror == MaraJoin("b", Unwrap(FileName(file_event.path)))

\* C18: with A->B alone, a Create or Modify of a .txt file under A is accepted,
\* what is read is the source's content, the one write goes to the file of the
\* same name under B with that content, the mapping {B/<filename>, A->B} is
\* then in the registry, and the notification of that write causes no write.
C18_Mirroring ==
    /\ []((processes = <<A2B>> /\ OfWrite /\ pc \in {"read", "write", "insert"})
            => (OfTxtInA /\ target_path = Mirror))
    /\ []((processes = <<A2B>> /\ OfWrite /\ OfTxtInA /\ pc = "done")
            => /\ outcomes \in {<<"ok">>, <<"err">>}
               /\ outcomes = <<"ok">> => /\ PathStr(Mirror) \in DOMAIN sync_map
                                          /\ sync_map[PathStr(Mirror)] = A2B
                                          /\ Len(stdout) = 2)
    /\ []((processes = <<A2B>> /\ Dispatching /\ ~OfTxtInA)
            => (pc \in {"filter", "done"} /\ outcomes \in {<<>>, <<"skip">>}))
    /\ [][(processes = <<A2B>> /\ pc = "read" /\ pc' = "write")
              => transformed' = Unwrap(fs[file_event.path])]_vars
    /\ [][(processes = <<A2B>> /\ pc = "write" /\ pc' = "insert")
              => fs' = [fs EXCEPT ![Resolve(Mirror)] = Some(transformed)]]_vars

\* C18, witness: A->B has mirrored the created file; source and mirror hold
\* the same content and the mapping is in the registry
C18_Witness ==
    /\ processes = <<A2B>> /\ pc = "done" /\ outcomes = <<"ok">>
    /\ file_event.event_kind = Create /\ note.cause = "ext"
    /\ is_file(file_event.path)
    /\ fs[InDir("b", "x.txt")] = fs[InDir("a", "x.txt")]
    /\ sync_map = (PathStr(MaraJoin("b", "x.txt")) :> A2B)

\* C19: while the second of two identical Modify notifications is handled by
\* processes with an identity transform, no step changes the files or the
\* registry: they stay as the first handling left them.
C19_DuplicateTolerance ==
    [][note.cause = "dup" => (fs' = fs /\ sync_map' = sync_map)]_vars

\* C19, witness: the second handling has run the write again
C19_Witness ==
    /\ note.cause = "dup" /\ pc = "done"
    /\ \E i \in 1..Len(outcomes) : outcomes[i] = "ok"

\* the thread is inside an operation on the registry
InRegistry(t) == threads[t].pc \in {"get", "insert", "store"}

\* C20: with two callbacks running side by side, a thread inside a get or an
\* insert holds the lock and is alone there; no lookup returns a half-written
\* entry; and a mapping once recorded is never lost: it stays in the registry,
\* and the mapping of an insert that has returned is there.
C20_RegistryAtomicity ==
    /\ [](\A t \in Threads : InRegistry(t) => lock = t)
    /\ [](\A t \in Threads : threads[t].got # Some(HalfWritten))
    /\ [](\A t \in Threads : threads[t].pc = "inserted"
              => /\ threads[t].key \in DOMAIN sync_map
                 /\ \/ sync_map[threads[t].key] = CHAT
                    \/ \E u \in Threads : /\ lock = u /\ threads[u].pc = "store"
                                           /\ threads[u].key = threads[t].key)
    /\ [][\A k \in DOMAIN sync_map :
              sync_map[k] # HalfWritten
                  => /\ k \in DOMAIN sync_map'
                     /\ \/ sync_map'[k] = sync_map[k]
                        \/ \E t \in Threads : lock = t /\ threads[t].key = k]_vars

\* C20, witness: one thread is in the middle of its insert, the entry
\* half-written, while the other waits for the lock to look that path up
C20_Witness ==
    \E t, u \in Threads :
        /\ threads[t].pc = "store" /\ sync_map[threads[t].key] = HalfWritten
        /\ threads[u].pc = "classify" /\ threads[u].key = threads[t].key
        /\ DOMAIN threads[t].seen # {}

\* C21: a process that failed on an event is behind the loop for the rest of
\* that dispatch: it is not executed again, and an execution starts only for
\* the next process or when a new notification is taken from the queue.
C21_NoRetry ==
    /\ [](Dispatching => \A i \in 1..Len(outcomes) :
                              outcomes[i] = "err" => (pc = "done" \/ idx > i))
    /\ [][(pc' = "filter" /\ (pc # "filter" \/ idx' # idx))
              => \/ (pc = "idle" /\ queue # <<>> /\ queue' = Tail(queue) /\ idx' = 1)
                 \/ (idx' = idx + 1 /\ Len(outcomes') = idx)]_vars

\* C21, witness: a process failed, the dispatch is over and no notification
\* is pending: nothing will make the process try again
C21_Witness ==
    /\ pc = "done" /\ queue = <<>>
    /\ outcomes # <<>> /\ outcomes[Len(outcomes)] = "err"
    /\ Len(outcomes) = Len(processes)

\* C22 as stated: once run is called it does not return.
C22_NeverReturns == run_pc \notin {"Ok", "Err"}

\* C22, amended: run returns only before its loop (nothing to watch, no
\* process, or the watcher or a watch could not be set up); once in its loop
\* it stays there until the program is stopped from outside, and while it is
\* there a waiting notification can always be taken by the idle callback.
C22_LoopNeverReturns ==
    /\ [][Running => (Running' \/ run_pc' = "killed")]_vars
    /\ [][(run_pc' \in {"Ok", "Err"} /\ run_pc' # run_pc)
              => /\ run_pc \in {"called", "watch"}
                 /\ pc = "idle" /\ queue = <<>> /\ ext_count = 0
                 /\ \/ watch_paths = <<>> \/ processes = <<>>
                    \/ run_pc' = "Err"]_vars
    /\ []((Running /\ pc = "idle" /\ queue # <<>>)
            => ENABLED (Running /\ (ReceiveWrite \/ ReceiveGone \/ ReceiveRemove \/ ReceiveOther)))

\* C22, witness: run is in its loop after the callback has handled a
\* notification and written for it
C22_Witness ==
    /\ run_pc = "sleeping" /\ pc = "idle" /\ queue # <<>>
    /\ written # {} /\ DOMAIN sync_map # {}

\* no notification is pending and the callback is idle
Quiet == pc = "idle" /\ queue = <<>>

\* C23: with A->B, A<->C, Chat processor and Persona parser registered, after
\* the one external Create of a .txt file under _mara/a the system comes to
\* rest: from some point on no notification is pending and no process writes.
C23_Quiescence == (ext_count = 1) ~> [](Quiet /\ ext_count = 1)

\* in that run the watcher's queue never fills: no notification is lost
C23_NothingLost == Len(queue) < QueueCap

\* C24: with the Chat processor registered, the notification of an external
\* edit of a .chat file that no process wrote since its last notification is
\* classified External and the Chat processor acts on it (it appends its
\* message, or reports an error), also when the processor wrote the file
\* before; the notification of the processor's own write is skipped.
C24_ChatResponsive ==
    /\ (/\ processes = <<CHAT>> /\ OfWrite /\ NameEndsWith(file_event.path, ".chat")
        /\ note.cause = "ext" /\ ~note.had_pending)
          => /\ file_event.origin = External
             /\ pc = "done" => outcomes \in {<<"ok">>, <<"err">>}
    /\ (processes = <<CHAT>> /\ OfWrite /\ note.cause = CHAT /\ pc = "done")
          => outcomes = <<"skip">>

\* C25: with A<->C registered, after external creates and modifications of x under
\* _mara/a and under _mara/c the notifications are all handled at some point,
\* and whenever none is pending the two files hold the content of the most
\* recent external edit.
C25_Convergence ==
    /\ (ext_count > 0) ~> Quiet
    /\ []((Quiet /\ ext_count > 0)
            => \A p \in BothSides : fs[p] = Some(EditContent(ext_count)))

\* with A<->C alone the watcher's queue never fills: no notification is lost
C25_NothingLost == processes = <<A2C>> => Len(queue) < QueueCap

\* C26: A<->C goes on to read, write or remove only for an event whose origin
\* is External: an event with an Internal origin, whichever process it names,
\* is rejected by its filter.
C26_ExternalOnly ==
    (Dispatching /\ pc \in {"read", "write", "insert", "remove", "untrack"} /\ name = A2C)
        => file_event.origin = External

\* the path names a file in the directory d of the watched root
Under(d, path) ==
    /\ Len(path) > Len(WatchRoot) + 1
    /\ SubSeq(path, 1, Len(WatchRoot) + 1) = WatchRoot \o <<d>>

\* C27: A->B goes on to read and write only for a .txt file located under
\* _mara/a, its target is then _mara/b/<filename>, and an event for a path
\* under _mara/b (the notification of its own write among them) is skipped.
C27_NoSelfLoop ==
    /\ (processes = <<A2B>> /\ Dispatching /\ pc \in {"read", "write", "insert"})
          => /\ Under("a", file_event.path)
             /\ NameEndsWith(file_event.path, ".txt")
             /\ target_path = MaraJoin("b", Unwrap(FileName(file_event.path)))
    /\ (processes = <<A2B>> /\ Dispatching /\ Under("b", file_event.path) /\ pc = "done")
          => outcomes = <<"skip">>

\* C28: the transform executes exactly the entries without a result, each
\* once and in order; an entry with a result is in the output with the same
\* command and result; and on its own output the transform executes no
\* command whose output was not empty.
C28_OnlyNewCommands ==
    call.pc \in {"second", "done"} =>
        LET before == CommandLog_parse(call.content)
            after == CommandLog_parse(call.rendered)
        IN /\ call.executed = CommandExecuted(before)
           /\ \A i \in 1..Len(before) :
                 ~WithoutResult(before[i]) => (i <= Len(after) /\ after[i] = before[i])
           /\ call.pc = "done" =>
                 \A i \in 1..Len(call.executed) :
                     execute_command(call.executed[i]) = EmptyText

\* C29 as stated: for every text made of blocks "<persona>:", content lines,
\* "------" with trimmed, non-empty contents, render(parse(text)) is the text,
\* and parse(render(chat)) is the chat.
C29_RoundTrip ==
    call.pc = "done" => (call.rendered = call.text /\ call.parsed = call.messages)

\* a persona that parse reads back as it is: it starts with no blank and no
\* separator and ends with no colon
PlainPersona(persona) ==
    /\ TrimStartLine(persona) = persona
    /\ ~StartsWithDashes(persona)
    /\ ~EndsWithColon(persona)

\* C29, amended: the round trip holds, both ways, when every persona is plain.
C29_PlainRoundTrip ==
    (call.pc = "done" /\ \A i \in 1..Len(call.messages) : PlainPersona(call.messages[i].persona))
        => (call.rendered = call.text /\ call.parsed = call.messages)

\* C29, witness: two messages with plain personas, one with two content lines,
\* have made the round trip
C29_Witness ==
    /\ call.pc = "done" /\ Len(call.messages) = 2
    /\ \A i \in 1..2 : PlainPersona(call.messages[i].persona)
    /\ Len(call.messages[1].content) = 2
    /\ call.messages[2].persona = <<"Bob", SP, "B">>
    /\ call.rendered = call.text /\ call.parsed = call.messages

\* the texts of the todos of a list whose checkbox is, or is not, an x
IsChecked(e) == e.box \in {<<"x">>, <<"X">>}
IsOpen(e) == ~IsChecked(e)
TextsOf(es) == [i \in 1..Len(es) |-> es[i].text]

\* C30: after the transform of the Todo processor the "Neues Todo:" section
\* is empty; the typed entries come first, as uncompleted entries, ahead of
\* the listed uncompleted ones; every uncompleted entry is above the
\* separator and every completed one below it; each group keeps its order,
\* and no entry is lost or doubled.
C30_TodoOrdering ==
    call.pc = "done" =>
        LET open == call.typed \o TextsOf(SelectSeq(call.listed, IsOpen))
                               \o TextsOf(SelectSeq(call.below, IsOpen))
            closed == TextsOf(SelectSeq(call.listed, IsChecked))
                        \o TextsOf(SelectSeq(call.below, IsChecked))
            out == Lines(call.rendered)
            n == Len(open)
            rule == IF closed = <<>> THEN 0 ELSE 1
        IN /\ Len(out) = 3 + n + rule + Len(closed)
           /\ SubSeq(out, 1, 3) = << <<NEU>>, <<>>, <<TODOS>> >>
           /\ \A i \in 1..n : out[3 + i] = <<LB, RB, SP>> \o open[i]
           /\ rule = 1 => out[3 + n + 1] = <<RULE>>
           /\ \A i \in 1..Len(closed) :
                out[3 + n + rule + i] = <<LB, "x", RB, SP>> \o closed[i]

C30_Witness ==
    /\ call.pc = "done"
    /\ Len(call.typed) = 2
    /\ Len(call.listed) = 2
    /\ IsOpen(call.listed[1]) /\ IsChecked(call.listed[2])
    /\ Len(call.below) = 1 /\ IsChecked(call.below[1])
    /\ Lines(call.rendered)[4] = <<LB, RB, SP>> \o call.typed[1]
    /\ Lines(call.rendered)[7] = <<RULE>>

\* a line is "[] " or "[x] " followed by a text with no blank at either end
IsEntryLine(l, box) ==
    /\ Len(l) >= Len(box)
    /\ SubSeq(l, 1, Len(box)) = box
    /\ TrimLine(SubSeq(l, Len(box) + 1, Len(l))) = SubSeq(l, Len(box) + 1, Len(l))

\* the text is in canonical todo form: the header with an empty "Neues
\* Todo:" section, "[] " entries, then the separator and "[x] " entries
IsCanonicalTodo(t) ==
    /\ Len(t) >= 4
    /\ t[Len(t)] = <<>>
    /\ SubSeq(t, 1, 3) = << <<NEU>>, <<>>, <<TODOS>> >>
    /\ LET ls == SubSeq(t, 4, Len(t) - 1)
           k == FindFrom(ls, <<RULE>>, 1)
       IN IF k = 0
          THEN \A i \in 1..Len(ls) : IsEntryLine(ls[i], <<LB, RB, SP>>)
          ELSE /\ k < Len(ls)
               /\ \A i \in 1..(k - 1) : IsEntryLine(ls[i], <<LB, RB, SP>>)
               /\ \A i \in (k + 1)..Len(ls) : IsEntryLine(ls[i], <<LB, "x", RB, SP>>)

\* C31: TodoLog::render(TodoLog::parse(text)) is the text for every text in
\* canonical todo form, and for any input the transform applied twice
\* yields the text that the transform applied once yields.
C31_TodoRoundTrip ==
    /\ (call.pc \in {"second", "done"} /\ IsCanonicalTodo(call.content))
          => call.once = call.content
    /\ call.pc = "done" => call.twice = call.once

C31_Witness ==
    /\ call.pc = "done"
    /\ IsCanonicalTodo(call.content)
    /\ Len(call.content) = 9
    /\ call.content[6] = <<RULE>>
    /\ call.once = call.content
    /\ call.twice = call.once

\* C32 as stated: the rewrite of a file made of "<persona>:" blocks with
\* non-empty text, separated by "------" lines and ending in a newline,
\* leaves the content unchanged.
C32_PersonaRoundTrip == call.pc = "done" => call.rendered = call.text

\* the persona ends with no ":", and the text has no blank and no empty line
\* at either end and no line that starts, after blanks, with "------"
PlainBlock(b) ==
    /\ ~EndsWithColon(b[1])
    /\ TrimText(b[2]) = b[2]
    /\ b[2] # EmptyText
    /\ \A i \in 1..Len(b[2]) : ~StartsWithDashes(TrimLine(b[2][i]))

\* C32, amended: render_personas(parse_personas(text)) is the text for every
\* text of such blocks whose personas end with no ":" and whose texts are
\* trimmed.
C32_PlainPersonaRoundTrip ==
    (call.pc = "done" /\ \A i \in 1..Len(call.blocks) : PlainBlock(call.blocks[i]))
        => call.rendered = call.text

C32_Witness ==
    /\ call.pc = "done"
    /\ Len(call.blocks) = 2
    /\ \A i \in 1..2 : PlainBlock(call.blocks[i])
    /\ call.blocks[1][1] = <<SP, "Alice">>
    /\ Len(call.blocks[1][2]) = 3
    /\ call.blocks[2][1] = <<>>
    /\ call.rendered = call.text

\* C33: for a Create or Modify event, from the filter of a process up to
\* the failure of its read, its transform or its write the registry does
\* not change; up to a failure of the read or the transform no step of the
\* process writes a file or raises a notification.
C33_FailureFrame ==
    /\ [][(OfWrite /\ pc \in {"filter", "read", "write"}) => sync_map' = sync_map]_vars
    /\ [][(OfWrite /\ pc \in {"filter", "read"} /\ (pc' # pc \/ outcomes' # outcomes))
             => (fs' = fs /\ writers' = writers /\ written' = written /\ queue' = queue)]_vars
    /\ [][(OfWrite /\ Fails)
             => (pc \in {"read", "write"} /\ sync_map' = sync_map /\ fs' = fs)]_vars

\* the read failed (no write has failed so far): no target, no mapping
C33_Witness ==
    /\ OfWrite
    /\ outcomes # <<>> /\ outcomes[Len(outcomes)] = "err"
    /\ fail_count = 0
    /\ file_event.origin = External
    /\ sync_map = <<>>
    /\ written = {}
    /\ ~is_file(MaraJoin("b", "x.txt")) /\ ~is_file(MaraJoin("c", "x.txt"))

\* C34: when a process has handled a Delete event with target T without
\* error, the registry holds no mapping for the file T; an external Create
\* or Modify of T that comes after that, with no write of T by a process in
\* between, is classified External.
C34_DeleteClears ==
    /\ [][(pc = "untrack" /\ pc' # "untrack")
             => \A k \in DOMAIN sync_map' : Resolve(k) # Resolve(target_path)]_vars
    /\ []((OfWrite /\ note.cause = "ext" /\ file_event.path \in untracked)
             => file_event.origin = External)

\* C35: in every reachable state the registry holds at most one process
\* name for a target file; when a process has written a target and recorded
\* it, the name the registry holds for that file is the name of that
\* process, and no earlier name is left.
C35_OneNamePerTarget ==
    /\ [](\A k1, k2 \in DOMAIN sync_map : Resolve(k1) = Resolve(k2) => k1 = k2)
    /\ [][(pc = "insert" /\ pc' # "insert")
             => \A k \in DOMAIN sync_map' :
                    Resolve(k) = Resolve(target_path) => sync_map'[k] = name]_vars

\* C36: while an event is being dispatched the callback holds no guard of
\* the registry: the lock taken to classify is free when dispatch_event
\* starts, and free whenever a process goes to record or remove its target;
\* so every dispatch that has started comes to the end of its pass over the
\* processes.
C36_NoSelfDeadlock ==
    /\ [](pc # "idle" => MutexFree)
    /\ [][(pc \in {"insert", "untrack"} /\ pc' # pc) => (MutexFree /\ lock' = 0)]_vars
    /\ Dispatching ~> (pc = "done" /\ Len(outcomes) = Len(processes))

\* an event at the end of its pass: its notification was found in the
\* registry under the lock, and A->B has recorded its target for it under the
\* lock again
C36_Witness ==
    /\ pc = "done" /\ lock = 0
    /\ processes = <<A2B, PERSONA>>
    /\ outcomes = <<"ok", "skip">>
    /\ file_event.origin = Internal(PERSONA)
    /\ PathStr(MaraJoin("b", "x.txt")) \in DOMAIN sync_map

====
